---- MODULE Spec2Model ----
(***************************************************************************)
(* Versioning engine of cascade-counter: the patch codec (time/Patch.ts),  *)
(* the Timeline (time/Timeline.ts) and the branching TimeMachine.          *)
(*                                                                         *)
(* Indices are 0-based as in the source; entry i of a timeline is          *)
(* entries[i + 1] of the TLA+ sequence.  An optional value (snapshot?,     *)
(* patch?, latestSnapshot?) is the empty tuple when absent and a 1-tuple   *)
(* holding the value when present.                                         *)
(***************************************************************************)
EXTENDS Integers, Sequences, FiniteSets, TLC

\* ------------------------------------------------------------------ bounds
\* Longest timeline a commit may build in a linear machine.
MaxLen == 3
\* Longest timeline a commit may build in a branching machine.
MaxBranchLen == 2
\* Most branches a machine may hold.
MaxBranches == 2
\* Largest step count handed to stepForward / stepBackward.
MaxSteps == 2
\* The checkpointInterval the hybrid machines are configured with.
CheckpointInterval == 2

\* The board of the live State: state.board.bounds = [width, height].
GridBounds == <<2, 1>>
Width == GridBounds[1]
Height == GridBounds[2]
CellValues == {0, 1}

None == <<>>
Some(x) == <<x>>

\* No patch function has been called.
NoCall == [op |-> "none"]

Modes == {"full", "patch", "hybrid"}
Topologies == {"linear", "branching"}

\* Every array of width*height cells: the values of the live board.
Grids == [1..(Width * Height) -> CellValues]

VARIABLES
    mode,               \* config.mode
    topology,           \* config.topology
    hasIsEmptyPatch,    \* hooks.isEmptyPatch is supplied
    hasApplyPatchToState, \* hooks.applyPatchToState is supplied
    hasCreatePatch,     \* hooks.createPatch is supplied
    hasApplyPatchToSnapshot, \* hooks.applyPatchToSnapshot is supplied
    recordCalls,        \* history: does `last` name each call, failed calls and reads too?
    branchLimit,        \* exploration: the most branches commit() may build
    codec,              \* the last call of a patch function: its arguments and result
    committedSnapshot,  \* StateRecorder.committedSnapshot
    checkpointInterval, \* config.checkpointInterval, absent when not configured
    state,              \* the live State (the cells of its board)
    branches,           \* Map<number, TimeMachineBranch>
    nextBranchId,
    currentBranchId,
    committed,          \* history: per branch, the snapshot each commit that made entry i took
    last                \* history: the operation that made the last step and its outcome

vars == <<mode, topology, hasIsEmptyPatch, hasApplyPatchToState, hasCreatePatch,
          hasApplyPatchToSnapshot, recordCalls, branchLimit, codec,
          committedSnapshot, checkpointInterval, state, branches, nextBranchId,
          currentBranchId, committed, last>>

config == <<mode, topology, hasIsEmptyPatch, hasApplyPatchToState, hasCreatePatch,
            hasApplyPatchToSnapshot, recordCalls, branchLimit, codec,
            committedSnapshot, checkpointInterval>>

\* ------------------------------------------------------------ patch codec
\* Cell index of (x, y), 0-based, as y * width + x.
CellIndex(x, y, width) == y * width + x

RECURSIVE GridScanTransposed(_, _, _, _, _)
\* Faulty variant of GridScan: the two coordinates are exchanged.
GridScanTransposed(prevCells, nextCells, width, i, size) ==
    IF i >= size THEN <<>>
    ELSE LET rest == GridScanTransposed(prevCells, nextCells, width, i + 1, size)
         IN IF prevCells[i + 1] # nextCells[i + 1]
            THEN <<[x |-> i \div width, y |-> i % width,
                    prev |-> prevCells[i + 1], next |-> nextCells[i + 1]]>> \o rest
            ELSE rest

RECURSIVE GridScan(_, _, _, _, _)
\* The loop of computeGridPatch2D over cell indices i .. size-1.
GridScan(prevCells, nextCells, width, i, size) ==
    IF i >= size THEN <<>>
    ELSE LET rest == GridScan(prevCells, nextCells, width, i + 1, size)
         IN IF prevCells[i + 1] # nextCells[i + 1]
            THEN <<[x |-> i % width, y |-> i \div width,
                    prev |-> prevCells[i + 1], next |-> nextCells[i + 1]]>> \o rest
            ELSE rest

computeGridPatch2D(prevCells, nextCells, width, height) ==
    GridScan(prevCells, nextCells, width, 0, width * height)

RECURSIVE GridWrite(_, _, _, _, _)
\* The loop of applyGridPatch2D over the tuples k .. Len(cellsPatch).
GridWrite(cells, cellsPatch, width, dir, k) ==
    IF k > Len(cellsPatch) THEN cells
    ELSE LET cell == cellsPatch[k]
             index == CellIndex(cell.x, cell.y, width)
             value == IF dir = "forward" THEN cell.next ELSE cell.prev
         IN GridWrite([cells EXCEPT ![index + 1] = value], cellsPatch, width, dir, k + 1)

\* Faulty variant of applyGridPatch2D: the direction is not looked at.
applyGridPatch2DForwardOnly(baseCells, cellsPatch, width, dir) ==
    IF Len(cellsPatch) = 0 THEN baseCells
    ELSE GridWrite(baseCells, cellsPatch, width, "forward", 1)

applyGridPatch2D(baseCells, cellsPatch, width, dir) ==
    IF Len(cellsPatch) = 0 THEN baseCells
    ELSE GridWrite(baseCells, cellsPatch, width, dir, 1)

\* computeGridPatch2D's two guards: arrays of different length, or of a
\* length other than width * height, are rejected.
computeGridPatch2DThrows(prevCells, nextCells, width, height) ==
    \/ Len(prevCells) # Len(nextCells)
    \/ Len(prevCells) # width * height

RECURSIVE GridScanRows(_, _, _, _, _, _)
\* The nested loops of computeGridPatch2D: rows y .. height-1, and in row y
\* the columns x .. width-1.
GridScanRows(prevCells, nextCells, width, height, x, y) ==
    IF y >= height THEN <<>>
    ELSE IF x >= width THEN GridScanRows(prevCells, nextCells, width, height, 0, y + 1)
    ELSE LET i == y * width + x
             rest == GridScanRows(prevCells, nextCells, width, height, x + 1, y)
         IN IF prevCells[i + 1] # nextCells[i + 1]
            THEN <<[x |-> x, y |-> y,
                    prev |-> prevCells[i + 1], next |-> nextCells[i + 1]]>> \o rest
            ELSE rest

\* computeGridPatch2D as written with a loop over rows and columns.
computeGridPatch2DRows(prevCells, nextCells, width, height) ==
    GridScanRows(prevCells, nextCells, width, height, 0, 0)

\* The base array after applyGridPatch2D: the loops write into the copy
\* made by slice(), never into baseCells.
applyGridPatch2DBase(baseCells, cellsPatch, width, dir) == baseCells

\* computeScalarPatch(prev, next): undefined when the two are identical.
computeScalarPatch(prev, next) ==
    IF prev = next THEN None ELSE Some([prev |-> prev, next |-> next])

\* Faulty variant of applyScalarPatch: the value of the requested direction
\* is returned even when it is undefined.
applyScalarPatchNoFallback(base, patch, dir) ==
    IF patch = None THEN base
    ELSE IF dir = "forward" THEN patch[1].next ELSE patch[1].prev

\* applyScalarPatch(base, patch, dir).
applyScalarPatch(base, patch, dir) ==
    IF patch = None THEN base
    ELSE LET value == IF dir = "forward" THEN patch[1].next ELSE patch[1].prev
         IN IF value = None THEN base ELSE value

\* ------------------------------------------------------------------ hooks
\* The capability set of a machine whose State is a board.
createSnapshot(st) == st
applySnapshotToState(snap, st) == snap
createPatch(prev, next) == computeGridPatch2D(prev, next, Width, Height)
applyPatchToSnapshot(base, patch) == applyGridPatch2D(base, patch, Width, "forward")
applyPatchToState(patch, direction, st) == applyGridPatch2D(st, patch, Width, direction)
isEmptyPatch(patch) == Len(patch) = 0

\* The capability set of createConnectXTimeMachine in full: a snapshot is
\* the cells of the board, two cursor indices and an optional outcome; a
\* patch is one grid sub-patch and three scalar sub-patches.
createConnectXPatch(prev, next) ==
    [cells |-> computeGridPatch2D(prev.cells, next.cells, Width, Height),
     boardCursorIndex |-> computeScalarPatch(prev.boardCursorIndex, next.boardCursorIndex),
     playerCursorIndex |-> computeScalarPatch(prev.playerCursorIndex, next.playerCursorIndex),
     outcome |-> computeScalarPatch(prev.outcome, next.outcome)]

applyConnectXPatchToSnapshot(base, patch) ==
    [cells |-> applyGridPatch2D(base.cells, patch.cells, Width, "forward"),
     boardCursorIndex |-> applyScalarPatch(base.boardCursorIndex, patch.boardCursorIndex,
                                           "forward"),
     playerCursorIndex |-> applyScalarPatch(base.playerCursorIndex, patch.playerCursorIndex,
                                            "forward"),
     outcome |-> applyScalarPatch(base.outcome, patch.outcome, "forward")]

\* Faulty variant of isEmptyConnectXPatch: the outcome sub-patch is not looked at.
isEmptyConnectXPatchSkipsOutcome(patch) ==
    /\ Len(patch.cells) = 0
    /\ patch.boardCursorIndex = None
    /\ patch.playerCursorIndex = None

isEmptyConnectXPatch(patch) ==
    /\ Len(patch.cells) = 0
    /\ patch.boardCursorIndex = None
    /\ patch.playerCursorIndex = None
    /\ patch.outcome = None

\* --------------------------------------------------------------- Timeline
\* A Timeline: entries, cursor (-1 = no selection yet) and latestSnapshot.
NewTimeline == [entries |-> <<>>, cursor |-> -1, latestSnapshot |-> None]

Length(tl) == Len(tl.entries)

isAtPresent(tl) == tl.cursor = Length(tl) - 1

RECURSIVE BaseIndex(_, _)
\* getSnapshotAt's backward scan: the nearest index <= i holding a snapshot, or -1.
BaseIndex(entries, i) ==
    IF i < 0 THEN -1
    ELSE IF entries[i + 1].snapshot # None THEN i
    ELSE BaseIndex(entries, i - 1)

RECURSIVE ReplayDropsPatch(_, _, _, _)
\* Faulty variant of Replay: an entry whose snapshot is cached loses its
\* patch.
ReplayDropsPatch(entries, currentSnapshot, i, index) ==
    IF i > index THEN [ok |-> TRUE, entries |-> entries, snap |-> currentSnapshot]
    ELSE LET e == entries[i + 1]
         IN IF e.snapshot # None
            THEN ReplayDropsPatch(entries, e.snapshot[1], i + 1, index)
            ELSE IF e.patch # None
            THEN LET s == applyPatchToSnapshot(currentSnapshot, e.patch[1])
                 IN ReplayDropsPatch(
                        [entries EXCEPT ![i + 1] = [snapshot |-> Some(s), patch |-> None]],
                        s, i + 1, index)
            ELSE [ok |-> FALSE, entries |-> entries, snap |-> currentSnapshot]

RECURSIVE ReplayNoCache(_, _, _, _)
\* Faulty variant of Replay: reconstructed snapshots are not cached.
ReplayNoCache(entries, currentSnapshot, i, index) ==
    IF i > index THEN [ok |-> TRUE, entries |-> entries, snap |-> currentSnapshot]
    ELSE LET e == entries[i + 1]
         IN IF e.snapshot # None
            THEN ReplayNoCache(entries, e.snapshot[1], i + 1, index)
            ELSE IF e.patch # None
            THEN ReplayNoCache(entries, applyPatchToSnapshot(currentSnapshot, e.patch[1]),
                               i + 1, index)
            ELSE [ok |-> FALSE, entries |-> entries, snap |-> currentSnapshot]

RECURSIVE ReplayCachesTarget(_, _, _, _)
\* Faulty variant of Replay: only the entry asked for gets its snapshot
\* cached, the entries passed on the way do not.
ReplayCachesTarget(entries, currentSnapshot, i, index) ==
    IF i > index THEN [ok |-> TRUE, entries |-> entries, snap |-> currentSnapshot]
    ELSE LET e == entries[i + 1]
         IN IF e.snapshot # None
            THEN ReplayCachesTarget(entries, e.snapshot[1], i + 1, index)
            ELSE IF e.patch # None
            THEN LET s == applyPatchToSnapshot(currentSnapshot, e.patch[1])
                 IN ReplayCachesTarget(IF i = index
                                       THEN [entries EXCEPT ![i + 1].snapshot = Some(s)]
                                       ELSE entries, s, i + 1, index)
            ELSE [ok |-> FALSE, entries |-> entries, snap |-> currentSnapshot]

RECURSIVE Replay(_, _, _, _)
\* getSnapshotAt's replay loop from entry i to entry index, caching every
\* reconstructed snapshot on its entry.
Replay(entries, currentSnapshot, i, index) ==
    IF i > index THEN [ok |-> TRUE, entries |-> entries, snap |-> currentSnapshot]
    ELSE LET e == entries[i + 1]
         IN IF e.snapshot # None
            THEN Replay(entries, e.snapshot[1], i + 1, index)
            ELSE IF e.patch # None
            THEN LET s == applyPatchToSnapshot(currentSnapshot, e.patch[1])
                 IN Replay([entries EXCEPT ![i + 1].snapshot = Some(s)], s, i + 1, index)
            ELSE [ok |-> FALSE, entries |-> entries, snap |-> currentSnapshot]

\* Timeline.getSnapshotAt(index): ok = FALSE is a throw; tl is the timeline
\* afterwards (with the caches the call filled), snap its result.
getSnapshotAt(tl, index) ==
    IF index < 0 \/ index >= Length(tl)
    THEN [ok |-> FALSE, tl |-> tl, snap |-> None]
    ELSE IF tl.entries[index + 1].snapshot # None
    THEN [ok |-> TRUE, tl |-> tl, snap |-> tl.entries[index + 1].snapshot]
    ELSE IF mode = "full"
    THEN [ok |-> FALSE, tl |-> tl, snap |-> None]
    ELSE IF ~hasApplyPatchToSnapshot
    THEN [ok |-> FALSE, tl |-> tl, snap |-> None]
    ELSE LET baseIndex == BaseIndex(tl.entries, index)
         IN IF baseIndex < 0
            THEN [ok |-> FALSE, tl |-> tl, snap |-> None]
            ELSE LET r == Replay(tl.entries, tl.entries[baseIndex + 1].snapshot[1],
                                 baseIndex + 1, index)
                 IN [ok |-> r.ok, tl |-> [tl EXCEPT !.entries = r.entries],
                     snap |-> IF r.ok THEN Some(r.snap) ELSE None]

\* Timeline.getEntry(index): ok = FALSE is a throw.
getEntry(tl, index) ==
    IF index < 0 \/ index >= Length(tl)
    THEN [ok |-> FALSE, entry |-> None]
    ELSE [ok |-> TRUE, entry |-> Some(tl.entries[index + 1])]

\* Timeline.getCurrentSnapshot(): throws when the cursor is -1.
getCurrentSnapshot(tl) ==
    IF tl.cursor < 0 THEN [ok |-> FALSE, tl |-> tl, snap |-> None]
    ELSE getSnapshotAt(tl, tl.cursor)

\* Faulty variant of truncateFuture: nothing is dropped.
truncateFutureKeepsAll(tl) == tl

\* Faulty variant of truncateFuture: the entries are dropped but
\* latestSnapshot is not recomputed.
truncateFutureStaleLatest(tl) ==
    IF tl.cursor < Length(tl) - 1
    THEN [tl EXCEPT !.entries = SubSeq(tl.entries, 1, tl.cursor + 1)]
    ELSE tl

\* Timeline.truncateFuture(): keep entries up to the cursor, drop the rest.
truncateFuture(tl) ==
    IF tl.cursor < Length(tl) - 1
    THEN LET cut == [tl EXCEPT !.entries = SubSeq(tl.entries, 1, tl.cursor + 1)]
         IN IF Length(cut) = 0
            THEN [cut EXCEPT !.latestSnapshot = None]
            ELSE LET r == getSnapshotAt(cut, Length(cut) - 1)
                 IN [r.tl EXCEPT !.latestSnapshot = r.snap]
    ELSE tl

\* Faulty variant of pushFull: the entry is appended but the cursor is left
\* where it was.
pushFullCursorLeft(tl, snapshot, truncate) ==
    LET t == IF truncate THEN truncateFuture(tl) ELSE tl
    IN [entries |-> Append(t.entries, [snapshot |-> Some(snapshot), patch |-> None]),
        cursor |-> t.cursor,
        latestSnapshot |-> Some(snapshot)]

\* Faulty variant of pushFull: the entry is appended without its snapshot.
pushFullStoresNothing(tl, snapshot, truncate) ==
    LET t == IF truncate THEN truncateFuture(tl) ELSE tl
        index == Length(t)
    IN [entries |-> Append(t.entries, [snapshot |-> None, patch |-> None]),
        cursor |-> index,
        latestSnapshot |-> Some(snapshot)]

\* Timeline.pushFull(snapshot, label, truncateFuture).
pushFull(tl, snapshot, truncate) ==
    LET t == IF truncate THEN truncateFuture(tl) ELSE tl
        index == Length(t)
    IN [entries |-> Append(t.entries, [snapshot |-> Some(snapshot), patch |-> None]),
        cursor |-> index,
        latestSnapshot |-> Some(snapshot)]

\* pushPatch's guards: each throws before anything is changed.
pushPatchThrows(tl) ==
    \/ mode = "full"
    \/ tl.latestSnapshot = None
    \/ ~hasApplyPatchToSnapshot

\* Faulty variant of shouldStoreSnapshot: no checkpoint is ever stored.
shouldStoreSnapshotNever(index) == FALSE

\* The checkpointInterval of a hybrid timeline that configures none.
DefaultCheckpointInterval == 10

\* Faulty variant of shouldStoreSnapshot: a timeline that configures no
\* interval gets no default.
shouldStoreSnapshotNoDefault(index) ==
    IF mode = "patch" THEN FALSE
    ELSE /\ mode = "hybrid"
         /\ checkpointInterval # None
         /\ index % checkpointInterval[1] = 0

\* The checkpoint policy of pushPatch for the entry at index.
shouldStoreSnapshot(index) ==
    IF mode = "patch" THEN FALSE
    ELSE /\ mode = "hybrid"
         /\ index % (IF checkpointInterval = None THEN DefaultCheckpointInterval
                     ELSE checkpointInterval[1]) = 0

\* Faulty variant of pushPatch: the redo tail is dropped before the guards
\* are tested.
pushPatchTruncatesFirst(tl, patch, truncate) ==
    LET t == IF truncate THEN truncateFuture(tl) ELSE tl
    IN IF pushPatchThrows(t) THEN t
       ELSE LET index == Length(t)
                nextSnapshot == applyPatchToSnapshot(t.latestSnapshot[1], patch)
                entry == [snapshot |-> IF shouldStoreSnapshot(index)
                                       THEN Some(nextSnapshot) ELSE None,
                          patch |-> Some(patch)]
            IN [entries |-> Append(t.entries, entry),
                cursor |-> index,
                latestSnapshot |-> Some(nextSnapshot)]

\* Timeline.pushPatch(patch, label, truncate); the timeline is unchanged on a throw.
pushPatch(tl, patch, truncate) ==
    IF pushPatchThrows(tl) THEN tl
    ELSE LET t == IF truncate THEN truncateFuture(tl) ELSE tl
             index == Length(t)
             nextSnapshot == applyPatchToSnapshot(t.latestSnapshot[1], patch)
             entry == [snapshot |-> IF shouldStoreSnapshot(index)
                                    THEN Some(nextSnapshot) ELSE None,
                       patch |-> Some(patch)]
         IN [entries |-> Append(t.entries, entry),
             cursor |-> index,
             latestSnapshot |-> Some(nextSnapshot)]

\* Faulty variant of goTo: an index out of range is clamped into range.
goToClamps(tl, index) ==
    IF Length(tl) = 0 THEN tl
    ELSE [tl EXCEPT !.cursor = IF index < 0 THEN 0
                               ELSE IF index >= Length(tl) THEN Length(tl) - 1
                               ELSE index]

\* Timeline.goToStart / goToEnd: the timeline afterwards (unchanged when empty).
goToStart(tl) == IF Length(tl) = 0 THEN tl ELSE [tl EXCEPT !.cursor = 0]
goToEnd(tl) == IF Length(tl) = 0 THEN tl ELSE [tl EXCEPT !.cursor = Length(tl) - 1]

\* Timeline.goTo(index) throws outside [0, length - 1].
goToThrows(tl, index) == index < 0 \/ index >= Length(tl)
goTo(tl, index) == IF goToThrows(tl, index) THEN tl ELSE [tl EXCEPT !.cursor = index]

\* Timeline.stepBy(offset): a clamped jump; the timeline afterwards.
\* Faulty variant of stepBy: a target outside the timeline wraps around.
stepByWraps(tl, offset) ==
    IF offset = 0 \/ Length(tl) = 0 THEN tl
    ELSE [tl EXCEPT !.cursor = (tl.cursor + offset) % Length(tl)]

stepBy(tl, offset) ==
    IF offset = 0 \/ Length(tl) = 0 THEN tl
    ELSE LET maxIndex == Length(tl) - 1
             raw == tl.cursor + offset
             low == IF raw < 0 THEN 0 ELSE raw
             target == IF low > maxIndex THEN maxIndex ELSE low
         IN [tl EXCEPT !.cursor = target]

\* ------------------------------------------------------------ TimeMachine
\* The `timeline` getter: the timeline of the current branch.
timeline == branches[currentBranchId].timeline

branchCount == Cardinality(DOMAIN branches)

\* Faulty variant of MapSet: the map is replaced by the one new entry.
MapSetAlone(map, key, value) == [k \in {key} |-> value]

\* Map.set(key, value).
MapSet(map, key, value) ==
    [k \in (DOMAIN map) \cup {key} |-> IF k = key THEN value ELSE map[k]]

\* The current branch with its timeline replaced by tl.
WithTimeline(tl) == [branches EXCEPT ![currentBranchId].timeline = tl]

\* The snapshot index i of a timeline reconstructs to, without touching the
\* timeline (what getSnapshotAt(i) would return).
SnapshotValue(tl, i) == getSnapshotAt(tl, i).snap[1]

\* Timeline.forkFromExisting(source, forkIndex): a new timeline holding copies
\* of the source's entries 0..forkIndex, positioned at its own tip.
forkFromExisting(source, forkIndex) ==
    [entries |-> SubSeq(source.entries, 1, forkIndex + 1),
     cursor |-> forkIndex,
     latestSnapshot |-> getSnapshotAt(source, forkIndex).snap]

\* Faulty variant of CommitPush: the patch is always computed against
\* latestSnapshot, also when the cursor is behind the tip.
CommitPushStaleBaseline(tl, snap) ==
    IF Length(tl) = 0
    THEN [tl |-> pushFull(tl, snap, TRUE), kind |-> "first"]
    ELSE IF mode = "full"
    THEN [tl |-> pushFull(tl, snap, TRUE), kind |-> "full"]
    ELSE LET patch == createPatch(tl.latestSnapshot[1], snap)
         IN IF hasIsEmptyPatch /\ isEmptyPatch(patch)
            THEN [tl |-> tl, kind |-> "empty"]
            ELSE [tl |-> pushPatch(tl, patch, TRUE), kind |-> "patch"]

\* Faulty variant of CommitPush: the isEmptyPatch hook is never consulted.
CommitPushUnsuppressed(tl, snap) ==
    IF Length(tl) = 0
    THEN [tl |-> pushFull(tl, snap, TRUE), kind |-> "first"]
    ELSE IF mode = "full"
    THEN [tl |-> pushFull(tl, snap, TRUE), kind |-> "full"]
    ELSE LET base == IF isAtPresent(tl)
                     THEN [tl |-> tl, snap |-> tl.latestSnapshot]
                     ELSE getSnapshotAt(tl, tl.cursor)
             patch == createPatch(base.snap[1], snap)
         IN [tl |-> pushPatch(base.tl, patch, TRUE), kind |-> "patch"]

\* Faulty variant of CommitPush: full mode stores nothing when the State is
\* the snapshot already at the cursor.
CommitPushFullSuppressed(tl, snap) ==
    IF Length(tl) = 0
    THEN [tl |-> pushFull(tl, snap, TRUE), kind |-> "first"]
    ELSE IF ~hasCreatePatch \/ mode = "full"
    THEN IF getSnapshotAt(tl, tl.cursor).snap = Some(snap)
         THEN [tl |-> tl, kind |-> "empty"]
         ELSE [tl |-> pushFull(tl, snap, TRUE), kind |-> "full"]
    ELSE LET base == IF isAtPresent(tl)
                     THEN [ok |-> TRUE, tl |-> tl, snap |-> tl.latestSnapshot]
                     ELSE getSnapshotAt(tl, tl.cursor)
             patch == createPatch(base.snap[1], snap)
         IN IF hasIsEmptyPatch /\ isEmptyPatch(patch)
            THEN [tl |-> base.tl, kind |-> "empty"]
            ELSE [tl |-> pushPatch(base.tl, patch, TRUE), kind |-> "patch"]

\* The part of commit() after the fork: what it pushes onto `tl`.
\* kind: "first" | "full" | "empty" (suppressed) | "patch" | "throw" (the
\* baseline could not be read, or pushPatch refused the patch).
CommitPush(tl, snap) ==
    IF Length(tl) = 0
    THEN [tl |-> pushFull(tl, snap, TRUE), kind |-> "first"]
    ELSE IF ~hasCreatePatch \/ mode = "full"
    THEN [tl |-> pushFull(tl, snap, TRUE), kind |-> "full"]
    ELSE LET base == IF isAtPresent(tl)
                     THEN [ok |-> TRUE, tl |-> tl, snap |-> tl.latestSnapshot]
                     ELSE getSnapshotAt(tl, tl.cursor)
         IN IF ~base.ok
            THEN [tl |-> base.tl, kind |-> "throw"]
            ELSE LET patch == createPatch(base.snap[1], snap)
                 IN IF hasIsEmptyPatch /\ isEmptyPatch(patch)
                    THEN [tl |-> base.tl, kind |-> "empty"]
                    ELSE [tl |-> pushPatch(base.tl, patch, TRUE),
                          kind |-> IF pushPatchThrows(base.tl) THEN "throw" ELSE "patch"]

\* Faulty variant of CommitForks: commit() never forks, so a commit from the
\* past truncates the current branch whatever the topology.
CommitForksNever == FALSE

\* Faulty variant of CommitForks: under branching topology commit() forks
\* wherever the cursor is, at the tip too.
CommitForksAlways == topology = "branching"

\* Faulty variant of CommitForks: commit() forks only when the State
\* differs from the snapshot at the cursor.
CommitForksOnChange ==
    /\ topology = "branching"
    /\ ~isAtPresent(timeline)
    /\ createSnapshot(state) # SnapshotValue(timeline, timeline.cursor)

\* Does commit() fork? (branching topology, cursor behind the tip)
CommitForks == topology = "branching" /\ ~isAtPresent(timeline)

\* What the last step did.  op is the kind of call that last moved the
\* cursor, wrote the State or wrote the history: "goTo" is goToStart, goToEnd
\* or goTo; "step" any of stepForward, stepBackward and stepRelative;
\* "switch" any of switchBranch, cycleBranch, nextBranch and previousBranch.
\* res is the outcome; from tells whether the cursor was at the tip ("tip")
\* or behind it ("past") when the call began.  A call that threw and a plain
\* read are "none".  Under recordCalls every call is kept under its own name,
\* a call that threw and a read included.
OpKind(op) ==
    CASE op \in {"goToStart", "goToEnd", "goTo"} -> "goTo"
      [] op \in {"stepForward", "stepBackward", "stepRelative"} -> "step"
      [] op \in {"switchBranch", "cycleBranch", "nextBranch", "previousBranch"} -> "switch"
      [] OTHER -> op

Did(op, arg, res) ==
    IF res = "throw" \/ op \in {"getSnapshotAt", "getEntry"}
    THEN IF recordCalls
         THEN [op |-> op, res |-> res, from |-> "tip"]
         ELSE [op |-> "none", res |-> "none", from |-> "tip"]
    ELSE [op |-> IF recordCalls THEN op ELSE OpKind(op), res |-> res,
          from |-> IF op = "commit" /\ ~isAtPresent(timeline) THEN "past" ELSE "tip"]

\* The longest timeline a commit may build.  Branching machines are kept
\* shorter, except in hybrid mode, where a timeline has to reach a
\* checkpoint index.
LengthBound ==
    IF recordCalls THEN MaxBranchLen
    ELSE IF topology = "linear" \/ mode = "hybrid" THEN MaxLen ELSE MaxBranchLen

\* TimeMachine.commit().
Commit ==
    LET snap == createSnapshot(state)
        forkIndex == timeline.cursor
        newBranchId == nextBranchId
        activeId == IF CommitForks THEN newBranchId ELSE currentBranchId
        tl == IF CommitForks THEN forkFromExisting(timeline, forkIndex) ELSE timeline
        forked == IF CommitForks
                  THEN MapSet(branches, newBranchId,
                              [id |-> newBranchId, parentId |-> Some(currentBranchId),
                               forkIndex |-> Some(forkIndex), timeline |-> tl])
                  ELSE branches
        pushed == CommitPush(tl, snap)
        before == IF CommitForks
                  THEN SubSeq(committed[currentBranchId], 1, forkIndex + 1)
                  ELSE committed[currentBranchId]
        made == IF pushed.kind \in {"empty", "throw"} THEN before
                ELSE Append(SubSeq(before, 1, Length(pushed.tl) - 1), snap)
    IN /\ Length(pushed.tl) <= LengthBound
       /\ Cardinality(DOMAIN forked) <= branchLimit
       /\ nextBranchId' = IF CommitForks THEN nextBranchId + 1 ELSE nextBranchId
       /\ currentBranchId' = activeId
       /\ branches' = [forked EXCEPT ![activeId].timeline = pushed.tl]
       /\ committed' = MapSet(committed, activeId, made)
       /\ last' = Did("commit", 0, pushed.kind)
       /\ UNCHANGED <<config, state>>

\* The caller changes its live State (a move on the board) between commits.
Mutate ==
    \E s \in Grids :
        /\ s # state
        /\ state' = s
        /\ last' = Did("mutate", 0, "ok")
        /\ UNCHANGED <<config, branches, nextBranchId, currentBranchId, committed>>

\* A call that threw before it changed anything.
Throws(op, arg) ==
    /\ last' = Did(op, arg, "throw")
    /\ UNCHANGED <<config, state, branches, nextBranchId, currentBranchId, committed>>

\* Faulty variant of ApplySnapshot: the snapshot written onto the State is
\* the one at the cursor before the move.
ApplySnapshotBeforeMove(op, arg, tl) ==
    LET r == getCurrentSnapshot(timeline)
    IN /\ r.ok
       /\ branches' = WithTimeline([r.tl EXCEPT !.cursor = tl.cursor])
       /\ state' = applySnapshotToState(r.snap[1], state)
       /\ last' = Did(op, arg, "ok")
       /\ UNCHANGED <<config, nextBranchId, currentBranchId, committed>>

\* TimeMachine.applySnapshot() once the cursor of the current timeline is at
\* tl.cursor: the snapshot there is written onto the live State.
ApplySnapshot(op, arg, tl) ==
    LET r == getCurrentSnapshot(tl)
    IN /\ r.ok
       /\ branches' = WithTimeline(r.tl)
       /\ state' = applySnapshotToState(r.snap[1], state)
       /\ last' = Did(op, arg, "ok")
       /\ UNCHANGED <<config, nextBranchId, currentBranchId, committed>>

\* TimeMachine.goToEnd().
GoToEnd ==
    IF Length(timeline) = 0 THEN Throws("goToEnd", 0)
    ELSE ApplySnapshot("goToEnd", 0, goToEnd(timeline))

\* TimeMachine.goToStart().
GoToStart ==
    IF Length(timeline) = 0 THEN Throws("goToStart", 0)
    ELSE ApplySnapshot("goToStart", 0, goToStart(timeline))

\* TimeMachine.goTo(index).
GoTo(index) ==
    IF goToThrows(timeline, index) THEN Throws("goTo", index)
    ELSE ApplySnapshot("goTo", index, goTo(timeline, index))

RECURSIVE StepLoopOldEntry(_, _, _, _)
\* Faulty variant of StepLoop: the patch applied in place is the one stored
\* on the entry the cursor left, not the one it arrived at.
StepLoopOldEntry(tl, st, steps, stepDelta) ==
    IF steps = 0 THEN [tl |-> tl, st |-> st]
    ELSE LET t == stepBy(tl, stepDelta)
             moved == t.cursor # tl.cursor
             direction == IF stepDelta > 0 THEN "forward" ELSE "backward"
             entry == tl.entries[tl.cursor + 1]
         IN IF ~moved THEN [tl |-> tl, st |-> st]
            ELSE IF hasApplyPatchToState /\ entry.patch # None
            THEN StepLoopOldEntry(t, applyPatchToState(entry.patch[1], direction, st),
                                  steps - 1, stepDelta)
            ELSE LET r == getSnapshotAt(t, t.cursor)
                 IN StepLoopOldEntry(r.tl, applySnapshotToState(r.snap[1], st),
                                     steps - 1, stepDelta)

RECURSIVE StepLoop(_, _, _, _)
\* The loop of TimeMachine.stepBy: up to `steps` single moves by stepDelta,
\* each followed by a patch applied to the State in place or by a snapshot
\* overwrite.
StepLoop(tl, st, steps, stepDelta) ==
    IF steps = 0 THEN [tl |-> tl, st |-> st]
    ELSE LET t == stepBy(tl, stepDelta)
             moved == t.cursor # tl.cursor
             direction == IF stepDelta > 0 THEN "forward" ELSE "backward"
             entry == t.entries[t.cursor + 1]
         IN IF ~moved THEN [tl |-> tl, st |-> st]
            ELSE IF hasApplyPatchToState /\ entry.patch # None
            THEN StepLoop(t, applyPatchToState(entry.patch[1], direction, st),
                          steps - 1, stepDelta)
            ELSE LET r == getSnapshotAt(t, t.cursor)
                 IN StepLoop(r.tl, applySnapshotToState(r.snap[1], st),
                             steps - 1, stepDelta)

\* TimeMachine.resolveSnapshot(): reads the current snapshot when the cursor
\* is behind the tip.
resolveSnapshot(tl) ==
    IF isAtPresent(tl) THEN tl ELSE getCurrentSnapshot(tl).tl

\* The private TimeMachine.stepBy(steps, stepDelta), steps >= 0.
TimeMachineStepBy(op, arg, steps, stepDelta) ==
    IF steps = 0
    THEN /\ branches' = WithTimeline(resolveSnapshot(timeline))
         /\ last' = Did(op, arg, "stayed")
         /\ UNCHANGED <<config, state, nextBranchId, currentBranchId, committed>>
    ELSE LET r == StepLoop(timeline, state, steps, stepDelta)
         IN /\ branches' = WithTimeline(r.tl)
            /\ state' = r.st
            /\ last' = Did(op, arg, IF r.tl.cursor = timeline.cursor THEN "stayed"
                                    ELSE IF stepDelta > 0 THEN "forward" ELSE "backward")
            /\ UNCHANGED <<config, nextBranchId, currentBranchId, committed>>

\* TimeMachine.stepBackward(steps).
StepBackward(steps) ==
    IF steps < 0 THEN Throws("stepBackward", steps)
    ELSE TimeMachineStepBy("stepBackward", steps, steps, -1)

\* TimeMachine.stepForward(steps).
StepForward(steps) ==
    IF steps < 0 THEN Throws("stepForward", steps)
    ELSE TimeMachineStepBy("stepForward", steps, steps, 1)

\* TimeMachine.stepRelative(steps).
StepRelative(steps) ==
    IF steps > 0 THEN TimeMachineStepBy("stepRelative", steps, steps, 1)
    ELSE TimeMachineStepBy("stepRelative", steps, -steps, -1)

\* A read through the public timeline: tm.timeline.getSnapshotAt(index).
ReadSnapshot(index) ==
    LET r == getSnapshotAt(timeline, index)
    IN /\ branches' = WithTimeline(r.tl)
       /\ last' = Did("getSnapshotAt", index, IF r.ok THEN "ok" ELSE "throw")
       /\ UNCHANGED <<config, state, nextBranchId, currentBranchId, committed>>

\* A read through the public timeline: tm.timeline.getEntry(index).
ReadEntry(index) ==
    /\ last' = Did("getEntry", index, IF getEntry(timeline, index).ok THEN "ok" ELSE "throw")
    /\ UNCHANGED <<config, state, branches, nextBranchId, currentBranchId, committed>>

RECURSIVE SortAscending(_)
\* Array.from(keys).sort((a, b) => a - b).
SortAscending(S) ==
    IF S = {} THEN <<>>
    ELSE LET m == CHOOSE x \in S : \A y \in S : x <= y
         IN <<m>> \o SortAscending(S \ {m})

getOrderedBranchIds == SortAscending(DOMAIN branches)

\* ids.indexOf(id), 0-based, -1 when absent.
IndexOf(ids, id) ==
    IF \E k \in 1..Len(ids) : ids[k] = id
    THEN (CHOOSE k \in 1..Len(ids) : ids[k] = id) - 1
    ELSE -1

\* The % of the source language: the remainder takes the sign of the dividend.
Rem(a, n) == IF a >= 0 THEN a % n ELSE -((-a) % n)

\* Faulty variant of SwitchTo: the timeline read for the target branch is
\* stored on the branch that was current when the call began.
SwitchToStale(op, arg, branchId) ==
    IF branchId \notin DOMAIN branches THEN Throws(op, arg)
    ELSE LET r == getCurrentSnapshot(branches[branchId].timeline)
         IN /\ currentBranchId' = branchId
            /\ IF r.ok
               THEN /\ branches' = [branches EXCEPT ![currentBranchId].timeline = r.tl]
                    /\ state' = applySnapshotToState(r.snap[1], state)
                    /\ last' = Did(op, arg, "ok")
               ELSE /\ last' = Did(op, arg, "throwAfter")
                    /\ UNCHANGED <<branches, state>>
            /\ UNCHANGED <<config, nextBranchId, committed>>

\* Faulty variant of SwitchTo: the branch is activated but its snapshot is
\* not written onto the State.
SwitchToKeepsState(op, arg, branchId) ==
    IF branchId \notin DOMAIN branches THEN Throws(op, arg)
    ELSE LET r == getCurrentSnapshot(branches[branchId].timeline)
         IN /\ currentBranchId' = branchId
            /\ IF r.ok
               THEN /\ branches' = [branches EXCEPT ![branchId].timeline = r.tl]
                    /\ last' = Did(op, arg, "ok")
               ELSE /\ last' = Did(op, arg, "throwAfter")
                    /\ UNCHANGED <<branches>>
            /\ UNCHANGED <<config, state, nextBranchId, committed>>

\* Faulty variant of SwitchTo: the branch is entered at its tip, not where
\* its cursor was left.
SwitchToTip(op, arg, branchId) ==
    IF branchId \notin DOMAIN branches THEN Throws(op, arg)
    ELSE LET r == getCurrentSnapshot(goToEnd(branches[branchId].timeline))
         IN /\ currentBranchId' = branchId
            /\ IF r.ok
               THEN /\ branches' = [branches EXCEPT ![branchId].timeline = r.tl]
                    /\ state' = applySnapshotToState(r.snap[1], state)
                    /\ last' = Did(op, arg, "ok")
               ELSE /\ last' = Did(op, arg, "throwAfter")
                    /\ UNCHANGED <<branches, state>>
            /\ UNCHANGED <<config, nextBranchId, committed>>

\* TimeMachine.switchBranch(branchId), reached as operation op(arg).
SwitchTo(op, arg, branchId) ==
    IF branchId \notin DOMAIN branches THEN Throws(op, arg)
    ELSE LET r == getCurrentSnapshot(branches[branchId].timeline)
         IN /\ currentBranchId' = branchId
            /\ IF r.ok
               THEN /\ branches' = [branches EXCEPT ![branchId].timeline = r.tl]
                    /\ state' = applySnapshotToState(r.snap[1], state)
                    /\ last' = Did(op, arg, "ok")
               ELSE /\ last' = Did(op, arg, "throwAfter")
                    /\ UNCHANGED <<branches, state>>
            /\ UNCHANGED <<config, nextBranchId, committed>>

SwitchBranch(branchId) == SwitchTo("switchBranch", branchId, branchId)

\* Faulty variant of NextId: the offset is counted down the ordered ids.
NextIdDescending(ids, current, offset) ==
    LET currentIndex == IndexOf(ids, current)
        len == Len(ids)
        nextIndex == Rem(Rem(currentIndex - offset, len) + len, len)
    IN ids[nextIndex + 1]

\* cycleBranch's arithmetic: the id `offset` places after `current` in ids,
\* wrapping around; ((currentIndex + offset) % len + len) % len.
NextId(ids, current, offset) ==
    LET currentIndex == IndexOf(ids, current)
        len == Len(ids)
        nextIndex == Rem(Rem(currentIndex + offset, len) + len, len)
    IN ids[nextIndex + 1]

\* Faulty variant of CycleBy: the topology is not tested.
CycleByAnyTopology(op, arg, offset) ==
    LET ids == getOrderedBranchIds
    IN SwitchTo(op, arg, NextId(ids, currentBranchId, offset))

\* TimeMachine.cycleBranch(offset), reached as operation op(arg).
CycleBy(op, arg, offset) ==
    LET ids == getOrderedBranchIds
        currentIndex == IndexOf(ids, currentBranchId)
        len == Len(ids)
    IN IF topology # "branching" \/ len = 0 \/ currentIndex = -1
       THEN Throws(op, arg)
       ELSE SwitchTo(op, arg, NextId(ids, currentBranchId, offset))

CycleBranch(offset) == CycleBy("cycleBranch", offset, offset)
NextBranch == CycleBy("nextBranch", 0, 1)
PreviousBranch == CycleBy("previousBranch", 0, -1)

\* ---------------------------------------------------------- specification
\* The configurations explored.  Two kinds are left out because they repeat
\* another one step for step.  In full mode no entry carries a patch, so
\* neither optional hook is ever reached: full mode is run with the hook set
\* of createConnectXTimeMachine only.  Under branching topology a timeline
\* of MaxBranchLen entries has no checkpoint index, so a hybrid machine so
\* bounded is a patch machine: hybrid mode under branching topology is
\* explored by SpecHybrid, with longer timelines.
Explored ==
    /\ mode = "full" => (hasIsEmptyPatch /\ ~hasApplyPatchToState)
    /\ topology = "branching" => mode # "hybrid"

\* new TimeMachine(state, config, hooks): the root branch with an empty timeline.
Init ==
    /\ mode \in Modes
    /\ topology \in Topologies
    /\ hasIsEmptyPatch \in BOOLEAN
    /\ hasApplyPatchToState \in BOOLEAN
    /\ hasCreatePatch = TRUE
    /\ hasApplyPatchToSnapshot = TRUE
    /\ recordCalls = FALSE
    /\ branchLimit = MaxBranches
    /\ codec = NoCall
    /\ committedSnapshot = None
    /\ checkpointInterval = Some(CheckpointInterval)
    /\ Explored
    /\ state \in Grids
    /\ branches = [b \in {0} |-> [id |-> 0, parentId |-> None, forkIndex |-> None,
                                  timeline |-> NewTimeline]]
    /\ nextBranchId = 1
    /\ currentBranchId = 0
    /\ committed = [b \in {0} |-> <<>>]
    /\ last = [op |-> "new", res |-> "ok", from |-> "tip"]

Next ==
    \/ Mutate
    \/ Commit
    \/ GoToEnd
    \/ GoToStart
    \/ \E i \in -1..MaxLen : GoTo(i)
    \/ \E n \in -1..MaxSteps : StepBackward(n)
    \/ \E n \in -1..MaxSteps : StepForward(n)
    \/ \E n \in {-1, 0, 1} : StepRelative(n)
    \/ \E i \in -1..MaxLen : ReadSnapshot(i)
    \/ \E b \in 0..MaxBranches : SwitchBranch(b)
    \/ \E k \in -(MaxBranches + 1)..(MaxBranches + 1) : CycleBranch(k)
    \/ NextBranch
    \/ PreviousBranch

Spec == Init /\ [][Next]_vars

\* ------------------------------------------- hybrid mode, branching topology
\* The machine of createConnectXTimeMachine (isEmptyPatch, no
\* applyPatchToState) in hybrid mode under branching topology, its
\* timelines growing up to MaxLen entries.
InitHybrid ==
    /\ mode = "hybrid"
    /\ topology = "branching"
    /\ hasIsEmptyPatch = TRUE
    /\ hasApplyPatchToState = FALSE
    /\ hasCreatePatch = TRUE
    /\ hasApplyPatchToSnapshot = TRUE
    /\ recordCalls = FALSE
    /\ branchLimit = MaxBranches
    /\ codec = NoCall
    /\ committedSnapshot = None
    /\ checkpointInterval = Some(CheckpointInterval)
    /\ state \in Grids
    /\ branches = [b \in {0} |-> [id |-> 0, parentId |-> None, forkIndex |-> None,
                                  timeline |-> NewTimeline]]
    /\ nextBranchId = 1
    /\ currentBranchId = 0
    /\ committed = [b \in {0} |-> <<>>]
    /\ last = [op |-> "new", res |-> "ok", from |-> "tip"]

NextHybrid ==
    \/ Mutate
    \/ Commit
    \/ \E i \in 0..MaxLen : GoTo(i)
    \/ \E b \in 0..MaxBranches : SwitchBranch(b)

SpecHybrid == InitHybrid /\ [][NextHybrid]_vars

\* ------------------------------------------------ construction and failures
\* The machine from before its construction, with any subset of the two
\* patch capabilities, every failed call recorded in `last`.
Constructed == DOMAIN branches # {}

\* The constructor's guard: patch and hybrid mode require createPatch.
ConstructorThrows == mode \in {"patch", "hybrid"} /\ ~hasCreatePatch

\* new TimeMachine(state, config, hooks).
Construct ==
    /\ ~Constructed
    /\ last.op = "none"
    /\ IF ConstructorThrows
       THEN /\ last' = [op |-> "new", res |-> "throw", from |-> "tip"]
            /\ UNCHANGED <<branches, committed>>
       ELSE /\ branches' = [b \in {0} |-> [id |-> 0, parentId |-> None,
                                            forkIndex |-> None, timeline |-> NewTimeline]]
            /\ committed' = [b \in {0} |-> <<>>]
            /\ last' = [op |-> "new", res |-> "ok", from |-> "tip"]
    /\ UNCHANGED <<config, state, nextBranchId, currentBranchId>>

\* In full mode neither capability is reached, so full mode is run with both.
InitErrors ==
    /\ mode \in Modes
    /\ topology \in Topologies
    /\ hasIsEmptyPatch = TRUE
    /\ hasApplyPatchToState = FALSE
    /\ hasCreatePatch \in BOOLEAN
    /\ hasApplyPatchToSnapshot \in BOOLEAN
    /\ mode = "full" => (hasCreatePatch /\ hasApplyPatchToSnapshot)
    /\ recordCalls = TRUE
    /\ branchLimit = MaxBranches
    /\ codec = NoCall
    /\ committedSnapshot = None
    /\ checkpointInterval = Some(CheckpointInterval)
    /\ state \in Grids
    /\ branches = <<>>
    /\ nextBranchId = 1
    /\ currentBranchId = 0
    /\ committed = <<>>
    /\ last = [op |-> "none", res |-> "none", from |-> "tip"]

NextErrors ==
    \/ Construct
    \/ Constructed /\ Mutate
    \/ Constructed /\ Commit
    \/ Constructed /\ GoToEnd
    \/ Constructed /\ GoToStart
    \/ Constructed /\ \E i \in -1..MaxLen : GoTo(i)
    \/ Constructed /\ \E i \in -1..MaxLen : ReadSnapshot(i)
    \/ Constructed /\ \E i \in -1..MaxLen : ReadEntry(i)
    \/ Constructed /\ \E b \in 0..MaxBranches : SwitchBranch(b)
    \/ Constructed /\ \E k \in -(MaxBranches + 1)..(MaxBranches + 1) : CycleBranch(k)
    \/ Constructed /\ NextBranch
    \/ Constructed /\ PreviousBranch

SpecErrors == InitErrors /\ [][NextErrors]_vars

\* ---------------------------------------------------------- three branches
\* A full-mode machine under branching topology whose State is left alone
\* between commits, so that it can grow one branch more: commits, moves of
\* the cursor and the four branch operations.
InitBranches ==
    /\ mode = "full"
    /\ topology = "branching"
    /\ hasIsEmptyPatch = TRUE
    /\ hasApplyPatchToState = FALSE
    /\ hasCreatePatch = TRUE
    /\ hasApplyPatchToSnapshot = TRUE
    /\ recordCalls = TRUE
    /\ branchLimit = MaxBranches + 1
    /\ codec = NoCall
    /\ committedSnapshot = None
    /\ checkpointInterval = Some(CheckpointInterval)
    /\ state \in Grids
    /\ branches = [b \in {0} |-> [id |-> 0, parentId |-> None, forkIndex |-> None,
                                  timeline |-> NewTimeline]]
    /\ nextBranchId = 1
    /\ currentBranchId = 0
    /\ committed = [b \in {0} |-> <<>>]
    /\ last = [op |-> "new", res |-> "ok", from |-> "tip"]

NextBranches ==
    \/ Commit
    \/ \E i \in 0..MaxLen : GoTo(i)
    \/ \E b \in 0..(MaxBranches + 1) : SwitchBranch(b)
    \/ \E k \in -(MaxBranches + 2)..(MaxBranches + 2) : CycleBranch(k)
    \/ NextBranch
    \/ PreviousBranch

SpecBranches == InitBranches /\ [][NextBranches]_vars

\* --------------------------------------------------- forking again
\* A patch-mode machine under branching topology that suppresses empty
\* commits and whose State changes between commits, with room for a third
\* branch: commits, jumps to either end of the timeline and branch switches.
InitForks ==
    /\ mode = "patch"
    /\ topology = "branching"
    /\ hasIsEmptyPatch = TRUE
    /\ hasApplyPatchToState = FALSE
    /\ hasCreatePatch = TRUE
    /\ hasApplyPatchToSnapshot = TRUE
    /\ recordCalls = FALSE
    /\ branchLimit = MaxBranches + 1
    /\ codec = NoCall
    /\ committedSnapshot = None
    /\ checkpointInterval = Some(CheckpointInterval)
    /\ state = [k \in 1..(Width * Height) |-> 0]
    /\ branches = [b \in {0} |-> [id |-> 0, parentId |-> None, forkIndex |-> None,
                                  timeline |-> NewTimeline]]
    /\ nextBranchId = 1
    /\ currentBranchId = 0
    /\ committed = [b \in {0} |-> <<>>]
    /\ last = [op |-> "new", res |-> "ok", from |-> "tip"]

NextForks ==
    \/ Mutate
    \/ Commit
    \/ GoToStart
    \/ GoToEnd
    \/ \E b \in 0..MaxBranches : SwitchBranch(b)

SpecForks == InitForks /\ [][NextForks]_vars

\* ------------------------------------------------- a Timeline used directly
\* The Timeline API driven by a caller of its own (as StateHistory and the
\* TimeMachine drive it), on the timeline of the root branch; the live State
\* and the branch bookkeeping play no part.

\* What the last Timeline call did: a push that first dropped a redo tail is
\* "truncated", any other push "appended"; a step of the cursor is kept
\* under its name with the boolean returned; other cursor moves are "moved", moves
\* that went nowhere "none"; a call that threw is "throw" and a read that
\* returned "ok", under the name of the call.
DidPush(op, truncate) ==
    [op |-> op,
     res |-> IF truncate /\ ~isAtPresent(timeline) THEN "truncated" ELSE "appended",
     from |-> IF isAtPresent(timeline) THEN "tip" ELSE "past"]

DidMove(tl) ==
    IF tl.cursor = timeline.cursor
    THEN [op |-> "none", res |-> "none", from |-> "tip"]
    ELSE [op |-> "move", res |-> "moved", from |-> "tip"]

\* The longest timeline a push may build: one that reaches the first
\* checkpoint of the default interval when none is configured.
TimelineBound ==
    IF checkpointInterval = None THEN DefaultCheckpointInterval + 1 ELSE MaxLen

\* The rest of the machine is left alone.
TimelineOnly == UNCHANGED <<config, state, nextBranchId, currentBranchId, committed>>

\* timeline.pushFull(snapshot, label, truncate).
TimelinePushFull(snapshot, truncate) ==
    LET tl == pushFull(timeline, snapshot, truncate)
    IN /\ Length(tl) <= TimelineBound
       /\ branches' = WithTimeline(tl)
       /\ last' = DidPush("pushFull", truncate)
       /\ TimelineOnly

\* timeline.pushPatch(patch, label, truncate) with the patch that leads from
\* the snapshot the new entry will follow to `next`.
TimelinePushPatch(next, truncate) ==
    LET prev == IF Length(timeline) = 0 THEN next
                ELSE IF truncate THEN SnapshotValue(timeline, timeline.cursor)
                ELSE timeline.latestSnapshot[1]
        tl == pushPatch(timeline, createPatch(prev, next), truncate)
    IN /\ Length(tl) <= TimelineBound
       /\ branches' = WithTimeline(tl)
       /\ last' = IF pushPatchThrows(timeline)
                  THEN [op |-> "pushPatch", res |-> "throw", from |-> "tip"]
                  ELSE DidPush("pushPatch", truncate)
       /\ TimelineOnly

\* A cursor move that leaves the timeline as tl: goToStart, goToEnd, goTo
\* (which throws out of range), stepBackward, stepForward and stepBy.
TimelineMove(tl) ==
    /\ branches' = WithTimeline(tl)
    /\ last' = DidMove(tl)
    /\ TimelineOnly

TimelineGoToStart == TimelineMove(goToStart(timeline))
TimelineGoToEnd == TimelineMove(goToEnd(timeline))
TimelineGoTo(index) ==
    IF goToThrows(timeline, index)
    THEN /\ branches' = WithTimeline(goTo(timeline, index))
         /\ last' = [op |-> "goTo", res |-> "throw", from |-> "tip"]
         /\ TimelineOnly
    ELSE TimelineMove(goTo(timeline, index))

\* Timeline.stepBackward().
stepBackward(tl) == IF tl.cursor <= 0 THEN tl ELSE [tl EXCEPT !.cursor = tl.cursor - 1]

\* Timeline.stepForward().
stepForward(tl) ==
    IF tl.cursor < 0 /\ Length(tl) > 0 THEN [tl EXCEPT !.cursor = 0]
    ELSE IF tl.cursor >= Length(tl) - 1 THEN tl
    ELSE [tl EXCEPT !.cursor = tl.cursor + 1]

\* The boolean each of the three returns.
stepBackwardReturns(tl) == ~(tl.cursor <= 0)

stepForwardReturns(tl) ==
    IF tl.cursor < 0 /\ Length(tl) > 0 THEN TRUE
    ELSE ~(tl.cursor >= Length(tl) - 1)

stepByReturns(tl, offset) ==
    IF offset = 0 \/ Length(tl) = 0 THEN FALSE
    ELSE LET maxIndex == Length(tl) - 1
             raw == tl.cursor + offset
             low == IF raw < 0 THEN 0 ELSE raw
             target == IF low > maxIndex THEN maxIndex ELSE low
         IN ~(target = tl.cursor)

\* A step of the cursor, recorded with the boolean it returned.
TimelineStep(op, tl, returned) ==
    /\ branches' = WithTimeline(tl)
    /\ last' = [op |-> op, res |-> IF returned THEN "true" ELSE "false", from |-> "tip"]
    /\ TimelineOnly

TimelineStepBackward ==
    TimelineStep("stepBackward", stepBackward(timeline), stepBackwardReturns(timeline))
TimelineStepForward ==
    TimelineStep("stepForward", stepForward(timeline), stepForwardReturns(timeline))
TimelineStepBy(offset) ==
    TimelineStep("stepBy", stepBy(timeline, offset), stepByReturns(timeline, offset))

\* timeline.getSnapshotAt(index) and timeline.getCurrentSnapshot(): reads
\* that may fill caches.
TimelineGetSnapshotAt(index) ==
    LET r == getSnapshotAt(timeline, index)
    IN /\ branches' = WithTimeline(r.tl)
       /\ last' = [op |-> "getSnapshotAt", res |-> IF r.ok THEN "ok" ELSE "throw",
                   from |-> "tip"]
       /\ TimelineOnly

TimelineGetCurrentSnapshot ==
    LET r == getCurrentSnapshot(timeline)
    IN /\ branches' = WithTimeline(r.tl)
       /\ last' = [op |-> "getCurrentSnapshot", res |-> IF r.ok THEN "ok" ELSE "throw",
                   from |-> "tip"]
       /\ TimelineOnly

\* new Timeline(config, hooks), in each mode.
InitTimeline ==
    /\ mode \in Modes
    /\ topology = "linear"
    /\ hasIsEmptyPatch = FALSE
    /\ hasApplyPatchToState = FALSE
    /\ hasCreatePatch = TRUE
    /\ hasApplyPatchToSnapshot = TRUE
    /\ recordCalls = FALSE
    /\ branchLimit = MaxBranches
    /\ codec = NoCall
    /\ committedSnapshot = None
    /\ checkpointInterval = Some(CheckpointInterval)
    /\ state = [k \in 1..(Width * Height) |-> 0]
    /\ branches = [b \in {0} |-> [id |-> 0, parentId |-> None, forkIndex |-> None,
                                  timeline |-> NewTimeline]]
    /\ nextBranchId = 1
    /\ currentBranchId = 0
    /\ committed = [b \in {0} |-> <<>>]
    /\ last = [op |-> "new", res |-> "ok", from |-> "tip"]

NextTimeline ==
    \/ \E s \in Grids, t \in BOOLEAN : TimelinePushFull(s, t)
    \/ \E s \in Grids, t \in BOOLEAN : TimelinePushPatch(s, t)
    \/ TimelineGoToStart
    \/ TimelineGoToEnd
    \/ \E i \in -1..MaxLen : TimelineGoTo(i)
    \/ TimelineStepBackward
    \/ TimelineStepForward
    \/ \E k \in -MaxSteps..MaxSteps : TimelineStepBy(k)
    \/ \E i \in -1..MaxLen : TimelineGetSnapshotAt(i)
    \/ TimelineGetCurrentSnapshot

SpecTimeline == InitTimeline /\ [][NextTimeline]_vars

\* ------------------------------------------------- the checkpoint policy
\* A Timeline of patch or hybrid mode, with a checkpointInterval configured
\* or not, that is pushed to and stepped back on.  Without a configured
\* interval the pushes all carry the snapshot of the one State, so that the
\* timeline can grow to the first default checkpoint.
PushedGrids == IF checkpointInterval = None THEN {state} ELSE Grids

InitCheckpoint ==
    /\ mode \in {"patch", "hybrid"}
    /\ topology = "linear"
    /\ hasIsEmptyPatch = FALSE
    /\ hasApplyPatchToState = FALSE
    /\ hasCreatePatch = TRUE
    /\ hasApplyPatchToSnapshot = TRUE
    /\ recordCalls = FALSE
    /\ branchLimit = MaxBranches
    /\ codec = NoCall
    /\ committedSnapshot = None
    /\ checkpointInterval \in {None, Some(CheckpointInterval)}
    /\ (mode = "patch") => (checkpointInterval # None)
    /\ state = [k \in 1..(Width * Height) |-> 0]
    /\ branches = [b \in {0} |-> [id |-> 0, parentId |-> None, forkIndex |-> None,
                                  timeline |-> NewTimeline]]
    /\ nextBranchId = 1
    /\ currentBranchId = 0
    /\ committed = [b \in {0} |-> <<>>]
    /\ last = [op |-> "new", res |-> "ok", from |-> "tip"]

NextCheckpoint ==
    \/ \E s \in PushedGrids : Length(timeline) = 0 /\ TimelinePushFull(s, TRUE)
    \/ \E s \in PushedGrids, t \in BOOLEAN : TimelinePushPatch(s, t)
    \/ TimelineStepBackward
    \/ TimelineGoToEnd

SpecCheckpoint == InitCheckpoint /\ [][NextCheckpoint]_vars

\* --------------------------------------------------------- StateRecorder
\* A StateRecorder on a Timeline of patch or hybrid mode.  The caller owns
\* the State and the Timeline: it changes the one and moves the cursor of
\* the other between the pushes.  `committed` keeps the snapshot each push
\* took.
RecorderOnly ==
    UNCHANGED <<mode, topology, hasIsEmptyPatch, hasApplyPatchToState, hasCreatePatch,
                hasApplyPatchToSnapshot, recordCalls, branchLimit, codec,
                checkpointInterval, state, nextBranchId, currentBranchId>>

\* recorder.push(state): the patch from the baseline to the State's snapshot
\* goes to timeline.pushPatch, or the snapshot to pushFull when there is no
\* baseline; the snapshot becomes the baseline.  A pushPatch that throws
\* leaves the baseline as it was.
RecorderPush ==
    LET snap == createSnapshot(state)
        threw == committedSnapshot # None /\ pushPatchThrows(timeline)
        tl == IF committedSnapshot # None
              THEN pushPatch(timeline, createPatch(committedSnapshot[1], snap), TRUE)
              ELSE pushFull(timeline, snap, TRUE)
    IN /\ Length(tl) <= MaxLen
       /\ branches' = WithTimeline(tl)
       /\ committedSnapshot' = IF threw THEN committedSnapshot ELSE Some(snap)
       /\ committed' = IF threw THEN committed
                       ELSE MapSet(committed, currentBranchId,
                                   Append(SubSeq(committed[currentBranchId], 1,
                                                 Length(tl) - 1), snap))
       /\ last' = [op |-> "push", res |-> IF threw THEN "throw" ELSE "ok",
                   from |-> IF isAtPresent(timeline) THEN "tip" ELSE "past"]
       /\ RecorderOnly

\* new Timeline(config, hooks) in patch or hybrid mode and
\* new StateRecorder({timeline, snapshot, patch}).
InitRecorder ==
    /\ mode \in {"patch", "hybrid"}
    /\ topology = "linear"
    /\ hasIsEmptyPatch = FALSE
    /\ hasApplyPatchToState = FALSE
    /\ hasCreatePatch = TRUE
    /\ hasApplyPatchToSnapshot = TRUE
    /\ recordCalls = FALSE
    /\ branchLimit = MaxBranches
    /\ codec = NoCall
    /\ committedSnapshot = None
    /\ checkpointInterval = Some(CheckpointInterval)
    /\ state = [k \in 1..(Width * Height) |-> 0]
    /\ branches = [b \in {0} |-> [id |-> 0, parentId |-> None, forkIndex |-> None,
                                  timeline |-> NewTimeline]]
    /\ nextBranchId = 1
    /\ currentBranchId = 0
    /\ committed = [b \in {0} |-> <<>>]
    /\ last = [op |-> "new", res |-> "ok", from |-> "tip"]

NextRecorder ==
    \/ RecorderPush
    \/ Mutate
    \/ TimelineGoToStart
    \/ TimelineGoToEnd
    \/ TimelineStepBackward
    \/ TimelineStepForward
    \/ \E k \in -MaxSteps..MaxSteps : TimelineStepBy(k)

SpecRecorder == InitRecorder /\ [][NextRecorder]_vars

\* ----------------------------------------------------------- StateHistory
\* recorder.record(state) of the TimelineRecorder a StateHistory builds: the
\* snapshot -> diff -> push sequence of a linear commit, a full snapshot on
\* an empty timeline.
record(tl, st) == CommitPush(tl, createSnapshot(st))

HistoryOnly ==
    UNCHANGED <<config, nextBranchId, currentBranchId, committed>>

\* history.recorder.record(history.state).
HistoryRecord ==
    LET pushed == record(timeline, state)
    IN /\ Length(pushed.tl) <= MaxLen
       /\ branches' = WithTimeline(pushed.tl)
       /\ last' = [op |-> "record", res |-> pushed.kind,
                   from |-> IF isAtPresent(timeline) THEN "tip" ELSE "past"]
       /\ UNCHANGED state
       /\ HistoryOnly

\* What StateHistory.stepBy(offset) leaves: the cursor is moved by
\* timeline.stepBy; when it moved, the patch of the entry at the OLD index is
\* applied to the State in the direction of offset, and without the hook or
\* without a patch on that entry the snapshot at the new index is written.
HistoryStepByResult(tl, st, offset) ==
    LET oldIndex == tl.cursor
        t == stepBy(tl, offset)
    IN IF ~stepByReturns(tl, offset) THEN [tl |-> tl, st |-> st, moved |-> FALSE]
       ELSE LET entry == t.entries[oldIndex + 1]
            IN IF hasApplyPatchToState /\ entry.patch # None
               THEN [tl |-> t,
                     st |-> applyPatchToState(entry.patch[1],
                                              IF offset > 0 THEN "forward" ELSE "backward", st),
                     moved |-> TRUE]
               ELSE LET r == getSnapshotAt(t, t.cursor)
                    IN [tl |-> r.tl,
                        st |-> IF r.ok THEN applySnapshotToState(r.snap[1], st) ELSE st,
                        moved |-> TRUE]

\* history.stepBy(offset).
HistoryStepBy(offset) ==
    LET r == HistoryStepByResult(timeline, state, offset)
    IN /\ branches' = WithTimeline(r.tl)
       /\ state' = r.st
       /\ last' = [op |-> "historyStepBy", res |-> IF r.moved THEN "moved" ELSE "stayed",
                   from |-> IF offset > 0 THEN "forward" ELSE "backward"]
       /\ HistoryOnly

\* new StateHistory(state, config, hooks): the timeline is made and the
\* initial snapshot recorded.
InitHistory ==
    /\ mode \in Modes
    /\ topology = "linear"
    /\ hasIsEmptyPatch = FALSE
    /\ hasApplyPatchToState \in BOOLEAN
    /\ hasCreatePatch = TRUE
    /\ hasApplyPatchToSnapshot = TRUE
    /\ recordCalls = FALSE
    /\ branchLimit = MaxBranches
    /\ codec = NoCall
    /\ committedSnapshot = None
    /\ checkpointInterval = Some(CheckpointInterval)
    /\ state \in Grids
    /\ branches = [b \in {0} |-> [id |-> 0, parentId |-> None, forkIndex |-> None,
                                  timeline |-> record(NewTimeline, state).tl]]
    /\ nextBranchId = 1
    /\ currentBranchId = 0
    /\ committed = [b \in {0} |-> <<>>]
    /\ last = [op |-> "new", res |-> "ok", from |-> "tip"]

NextHistory ==
    \/ HistoryRecord
    \/ Mutate
    \/ \E k \in -MaxSteps..MaxSteps : HistoryStepBy(k)

SpecHistory == InitHistory /\ [][NextHistory]_vars

\* ------------------------------------------------------ the patch functions
\* The functions of Patch.ts and the composite codec called on their own,
\* one call in a behaviour, recorded in `codec` with its arguments and its
\* result.
\* The board the grid functions are called on: [width, height].
CodecBounds == <<2, 2>>
CodecWidth == CodecBounds[1]
CodecHeight == CodecBounds[2]

\* Arrays of n cells.
Arrays(n) == [1..n -> CellValues]

\* The arrays handed to the grid functions: of width * height cells, and
\* one cell short.
CodecArrays == Arrays(CodecWidth * CodecHeight) \cup Arrays(CodecWidth * CodecHeight - 1)

\* The values of an optional scalar field, and the scalar patches.
ScalarValues == {1, 2}
OptionalScalars == {None} \cup {Some(v) : v \in ScalarValues}
ScalarPatches ==
    {None} \cup {Some([prev |-> a, next |-> b]) : a \in OptionalScalars, b \in OptionalScalars}

\* The snapshots of the composite codec.
ConnectXSnapshots ==
    [cells : Grids,
     boardCursorIndex : {Some(0), Some(1)},
     playerCursorIndex : {Some(0), Some(1)},
     outcome : {None, Some("win")}]

\* The machine is left alone.
CodecOnly ==
    UNCHANGED <<mode, topology, hasIsEmptyPatch, hasApplyPatchToState, hasCreatePatch,
                hasApplyPatchToSnapshot, recordCalls, branchLimit,
                committedSnapshot, checkpointInterval, state, branches,
                nextBranchId, currentBranchId, committed, last>>

\* computeScalarPatch(prev, next).
ComputeScalar(prev, next) ==
    /\ codec = NoCall
    /\ codec' = [op |-> "computeScalarPatch", prev |-> prev, next |-> next,
                 patch |-> computeScalarPatch(prev, next)]
    /\ CodecOnly

\* applyScalarPatch(base, patch, dir).
ApplyScalar(base, patch, dir) ==
    /\ codec = NoCall
    /\ codec' = [op |-> "applyScalarPatch", base |-> base, patch |-> patch, dir |-> dir,
                 result |-> applyScalarPatch(base, patch, dir)]
    /\ CodecOnly

\* computeGridPatch2D(prevCells, nextCells, width, height), by either loop.
ComputeGrid(prevCells, nextCells) ==
    LET threw == computeGridPatch2DThrows(prevCells, nextCells, CodecWidth, CodecHeight)
    IN /\ codec = NoCall
       /\ codec' = [op |-> "computeGridPatch2D", prev |-> prevCells, next |-> nextCells,
                    threw |-> threw,
                    patch |-> IF threw THEN <<>>
                              ELSE computeGridPatch2D(prevCells, nextCells,
                                                      CodecWidth, CodecHeight),
                    rows |-> IF threw THEN <<>>
                             ELSE computeGridPatch2DRows(prevCells, nextCells,
                                                         CodecWidth, CodecHeight)]
       /\ CodecOnly

\* applyGridPatch2D(baseCells, computeGridPatch2D(prevCells, nextCells), width, dir).
ApplyGrid(baseCells, prevCells, nextCells, dir) ==
    LET patch == computeGridPatch2D(prevCells, nextCells, CodecWidth, CodecHeight)
    IN /\ codec = NoCall
       /\ codec' = [op |-> "applyGridPatch2D", prev |-> prevCells, next |-> nextCells,
                    patch |-> patch, base |-> baseCells, dir |-> dir,
                    result |-> applyGridPatch2D(baseCells, patch, CodecWidth, dir),
                    baseAfter |-> applyGridPatch2DBase(baseCells, patch, CodecWidth, dir)]
       /\ CodecOnly

\* createPatch(prev, next) of the composite codec, then isEmptyPatch and
\* applyPatchToSnapshot(prev, patch).
CreateComposite(prev, next) ==
    LET patch == createConnectXPatch(prev, next)
    IN /\ codec = NoCall
       /\ codec' = [op |-> "createPatch", prev |-> prev, next |-> next, patch |-> patch,
                    empty |-> isEmptyConnectXPatch(patch),
                    applied |-> applyConnectXPatchToSnapshot(prev, patch)]
       /\ CodecOnly

InitCodec ==
    /\ mode = "patch"
    /\ topology = "linear"
    /\ hasIsEmptyPatch = TRUE
    /\ hasApplyPatchToState = FALSE
    /\ hasCreatePatch = TRUE
    /\ hasApplyPatchToSnapshot = TRUE
    /\ recordCalls = FALSE
    /\ branchLimit = MaxBranches
    /\ codec = NoCall
    /\ committedSnapshot = None
    /\ checkpointInterval = Some(CheckpointInterval)
    /\ state = [k \in 1..(Width * Height) |-> 0]
    /\ branches = [b \in {0} |-> [id |-> 0, parentId |-> None, forkIndex |-> None,
                                  timeline |-> NewTimeline]]
    /\ nextBranchId = 1
    /\ currentBranchId = 0
    /\ committed = [b \in {0} |-> <<>>]
    /\ last = [op |-> "new", res |-> "ok", from |-> "tip"]

NextCodec ==
    \/ \E prev \in OptionalScalars, next \in OptionalScalars : ComputeScalar(prev, next)
    \/ \E base \in OptionalScalars, patch \in ScalarPatches, dir \in {"forward", "backward"} :
          ApplyScalar(base, patch, dir)
    \/ \E prevCells \in CodecArrays, nextCells \in CodecArrays :
          ComputeGrid(prevCells, nextCells)
    \/ \E baseCells \in Arrays(CodecWidth * CodecHeight),
          prevCells \in Arrays(CodecWidth * CodecHeight),
          nextCells \in Arrays(CodecWidth * CodecHeight), dir \in {"forward", "backward"} :
          ApplyGrid(baseCells, prevCells, nextCells, dir)
    \/ \E prev \in ConnectXSnapshots, next \in ConnectXSnapshots : CreateComposite(prev, next)

SpecCodec == InitCodec /\ [][NextCodec]_vars

\* ================================================================ Properties

\* The timeline with every reconstructible snapshot forgotten: an entry that
\* carries a patch keeps only the patch (no cache and no checkpoint).
WithoutCaches(tl) ==
    [tl EXCEPT !.entries =
        [k \in DOMAIN tl.entries |->
            IF tl.entries[k].patch # None
            THEN [tl.entries[k] EXCEPT !.snapshot = None]
            ELSE tl.entries[k]]]

\* C1 (round trip): in every mode, for every index i of a timeline,
\* getSnapshotAt(i) returns the snapshot created by the commit that produced
\* entry i, whatever commits and time travel came in between and whether the
\* entries' snapshot caches are filled (the timeline as it is) or not (the
\* same timeline with its caches dropped).
RoundTrip ==
    \A b \in DOMAIN branches :
        LET tl == branches[b].timeline
        IN /\ Len(committed[b]) = Length(tl)
           /\ \A i \in 0..(Length(tl) - 1) :
                 /\ getSnapshotAt(tl, i).ok
                 /\ getSnapshotAt(tl, i).snap = Some(committed[b][i + 1])
                 /\ mode # "full" =>
                       getSnapshotAt(WithoutCaches(tl), i).snap = Some(committed[b][i + 1])

\* A patch-mode timeline of three pairwise different commits, rewound to its
\* start after a reconstruction filled the cache of its last entry.
WitnessRoundTrip ==
    /\ mode = "patch"
    /\ Length(timeline) >= 3
    /\ timeline.cursor = 0
    /\ timeline.entries[3].snapshot # None
    /\ committed[currentBranchId][1] # committed[currentBranchId][2]
    /\ committed[currentBranchId][2] # committed[currentBranchId][3]
    /\ committed[currentBranchId][1] # committed[currentBranchId][3]

\* The timeline of the branch that is current after a step.
timelineAfter == branches'[currentBranchId'].timeline

\* The step is a commit() that returned.
IsCommit == last'.op = "commit"

\* The live State differs from the snapshot at the cursor: a commit now
\* records a change (its patch would not be empty).
StateChanged == createSnapshot(state) # SnapshotValue(timeline, timeline.cursor)

\* C2 (truncate on write): under linear topology, a commit that is not
\* suppressed (full mode, or a State that differs from the snapshot at the
\* cursor) made with the cursor c behind the tip leaves the timeline with
\* length c + 2 and the cursor at c + 1; the snapshots at 0..c are what they
\* were, the snapshot at c + 1 is the committed State, and no branch is made.
TruncateOnWrite ==
    [][ ( /\ IsCommit
          /\ topology = "linear"
          /\ timeline.cursor < Length(timeline) - 1
          /\ (mode = "full" \/ StateChanged) )
        => LET c == timeline.cursor
           IN /\ Length(timelineAfter) = c + 2
              /\ timelineAfter.cursor = c + 1
              /\ \A i \in 0..c :
                    getSnapshotAt(timelineAfter, i).snap = getSnapshotAt(timeline, i).snap
              /\ getSnapshotAt(timelineAfter, c + 1).snap = Some(createSnapshot(state))
              /\ DOMAIN branches' = DOMAIN branches
              /\ currentBranchId' = currentBranchId
              /\ nextBranchId' = nextBranchId ]_vars

\* A linear machine just after a commit from behind the tip that appended.
WitnessTruncateOnWrite ==
    /\ topology = "linear"
    /\ last = [op |-> "commit", res |-> "patch", from |-> "past"]
    /\ Length(timeline) = 2
    /\ timeline.cursor = 1
    /\ branchCount = 1

\* C3 (fork on commit from the past): under branching topology, a commit of
\* a changed State made with the cursor c behind the tip creates exactly one
\* branch, which becomes the active one; its timeline has length c + 2 and
\* its cursor at c + 1, its snapshots at 0..c are the parent's and its
\* snapshot at c + 1 is the committed State.
ForkOnCommit ==
    [][ ( /\ IsCommit
          /\ topology = "branching"
          /\ timeline.cursor < Length(timeline) - 1
          /\ StateChanged )
        => LET c == timeline.cursor
           IN /\ nextBranchId \notin DOMAIN branches
              /\ DOMAIN branches' = DOMAIN branches \cup {nextBranchId}
              /\ Cardinality(DOMAIN branches') = branchCount + 1
              /\ currentBranchId' = nextBranchId
              /\ Length(timelineAfter) = c + 2
              /\ timelineAfter.cursor = c + 1
              /\ \A i \in 0..c :
                    getSnapshotAt(timelineAfter, i).snap = getSnapshotAt(timeline, i).snap
              /\ getSnapshotAt(timelineAfter, c + 1).snap = Some(createSnapshot(state)) ]_vars

\* A branching machine just after a commit from behind the tip forked the
\* root and appended to the new branch.
WitnessForkOnCommit ==
    /\ topology = "branching"
    /\ last = [op |-> "commit", res |-> "patch", from |-> "past"]
    /\ branchCount = 2
    /\ currentBranchId = 1
    /\ branches[1].parentId = Some(0)
    /\ Length(timeline) = 2
    /\ timeline.cursor = 1

\* C4 (branch independence): no step changes a branch other than the one
\* that is current after it. A fork leaves its parent as it was, and every
\* later commit, truncation-free append, time travel, read or cache fill
\* touches the active branch only.
BranchIndependence ==
    [][ \A b \in DOMAIN branches :
            b # currentBranchId' => (b \in DOMAIN branches' /\ branches'[b] = branches[b]) ]_vars

\* Two branches whose timelines differ, the forked one active and just
\* stepped back after it grew by a commit of its own.
WitnessBranchIndependence ==
    /\ branchCount = 2
    /\ currentBranchId = 1
    /\ last = [op |-> "step", res |-> "backward", from |-> "tip"]
    /\ Length(branches[1].timeline) = 2
    /\ Length(branches[0].timeline) = 2
    /\ branches[0].timeline.cursor = 0
    /\ SnapshotValue(branches[0].timeline, 1) # SnapshotValue(branches[1].timeline, 1)

Min(a, b) == IF a < b THEN a ELSE b
Max(a, b) == IF a > b THEN a ELSE b

\* After a step, the live State is the snapshot at the active cursor.
SyncedAfter ==
    getSnapshotAt(timelineAfter, timelineAfter.cursor).snap = Some(createSnapshot(state'))

\* Before a step, the live State is the snapshot at the active cursor.
Synced ==
    getSnapshotAt(timeline, timeline.cursor).snap = Some(createSnapshot(state))

\* The step is a goToStart, goToEnd or goTo that returned.
IsGoTo == last'.op = "goTo"

\* The step is a stepForward, stepBackward or stepRelative that returned.
IsStep == last'.op = "step"

\* The step is one that returned without moving the cursor back (forth).
IsStepNotBackward == IsStep /\ last'.res # "backward"
IsStepNotForward == IsStep /\ last'.res # "forward"

\* C5 as stated (time travel writes the snapshot onto the State): without an
\* applyPatchToState hook, on a non-empty timeline, after goToStart, goToEnd,
\* goTo(i) with i in range, stepForward(n) or stepBackward(n) with n >= 0
\* the cursor is 0, length-1, i, min(c+n, length-1) or max(c-n, 0), and the
\* live State equals the snapshot at that cursor.
TimeTravelAlwaysWritesState ==
    [][ (~hasApplyPatchToState /\ Length(timeline) > 0)
        => LET c == timeline.cursor
               len == Length(timeline)
           IN /\ (IsGoTo /\ GoToStart) => (timelineAfter.cursor = 0 /\ SyncedAfter)
              /\ (IsGoTo /\ GoToEnd) => (timelineAfter.cursor = len - 1 /\ SyncedAfter)
              /\ \A i \in 0..(len - 1) :
                    (IsGoTo /\ GoTo(i)) => (timelineAfter.cursor = i /\ SyncedAfter)
              /\ \A n \in 0..MaxSteps :
                    (IsStepNotBackward /\ StepForward(n)) =>
                        (timelineAfter.cursor = Min(c + n, len - 1) /\ SyncedAfter)
              /\ \A n \in 0..MaxSteps :
                    (IsStepNotForward /\ StepBackward(n)) =>
                        (timelineAfter.cursor = Max(c - n, 0) /\ SyncedAfter) ]_vars

\* C5 as the code has it: the cursor is as stated; goToStart, goToEnd and
\* goTo always write the snapshot at the new cursor onto the State, while
\* stepForward(n) and stepBackward(n) write it only when the cursor moved,
\* and leave the State as it was when the cursor did not move (n = 0, or the
\* cursor already at the boundary).
TimeTravelWritesState ==
    [][ (~hasApplyPatchToState /\ Length(timeline) > 0)
        => LET c == timeline.cursor
               len == Length(timeline)
               Stepped == IF timelineAfter.cursor # c THEN SyncedAfter ELSE state' = state
           IN /\ (IsGoTo /\ GoToStart) => (timelineAfter.cursor = 0 /\ SyncedAfter)
              /\ (IsGoTo /\ GoToEnd) => (timelineAfter.cursor = len - 1 /\ SyncedAfter)
              /\ \A i \in 0..(len - 1) :
                    (IsGoTo /\ GoTo(i)) => (timelineAfter.cursor = i /\ SyncedAfter)
              /\ \A n \in 0..MaxSteps :
                    (IsStepNotBackward /\ StepForward(n)) =>
                        (timelineAfter.cursor = Min(c + n, len - 1) /\ Stepped)
              /\ \A n \in 0..MaxSteps :
                    (IsStepNotForward /\ StepBackward(n)) =>
                        (timelineAfter.cursor = Max(c - n, 0) /\ Stepped) ]_vars

\* A hook-less patch-mode machine just stepped back from the tip of three
\* different commits: the State is the reconstructed middle snapshot.
WitnessTimeTravelWritesState ==
    /\ ~hasApplyPatchToState
    /\ mode = "patch"
    /\ last = [op |-> "step", res |-> "backward", from |-> "tip"]
    /\ Length(timeline) = 3
    /\ timeline.cursor = 1
    /\ Synced
    /\ SnapshotValue(timeline, 1) # SnapshotValue(timeline, 2)
    /\ SnapshotValue(timeline, 1) # SnapshotValue(timeline, 0)

\* C6 (in-place backward step): with the applyPatchToState hook and the live
\* State equal to the snapshot at cursor c > 0, stepBackward(1) moves the
\* cursor to c - 1 and leaves the State equal to the snapshot at c - 1.
InPlaceBackwardStep ==
    [][ ( /\ hasApplyPatchToState
          /\ timeline.cursor > 0
          /\ Synced
          /\ IsStep
          /\ StepBackward(1) )
        => (timelineAfter.cursor = timeline.cursor - 1 /\ SyncedAfter) ]_vars

\* C7 (in-place forward step): with the applyPatchToState hook and the live
\* State equal to the snapshot at cursor c < length - 1, stepForward(n),
\* n >= 1, moves the cursor to min(c + n, length - 1) and leaves the State
\* equal to the snapshot there, as a snapshot overwrite would.
InPlaceForwardStep ==
    [][ \A n \in 1..MaxSteps :
          ( /\ hasApplyPatchToState
            /\ Length(timeline) > 0
            /\ timeline.cursor < Length(timeline) - 1
            /\ Synced
            /\ IsStep
            /\ StepForward(n) )
          => ( /\ timelineAfter.cursor = Min(timeline.cursor + n, Length(timeline) - 1)
               /\ SyncedAfter ) ]_vars

\* A patch-mode machine with the hook just stepped forward onto the tip of
\* three different commits, whose entry carries a patch and no snapshot: the
\* State was patched in place and is the tip snapshot.
WitnessInPlaceForwardStep ==
    /\ hasApplyPatchToState
    /\ mode = "patch"
    /\ last = [op |-> "step", res |-> "forward", from |-> "tip"]
    /\ Length(timeline) = 3
    /\ timeline.cursor = 2
    /\ timeline.entries[3].snapshot = None
    /\ state = committed[currentBranchId][3]
    /\ committed[currentBranchId][2] # committed[currentBranchId][3]
    /\ committed[currentBranchId][1] # committed[currentBranchId][2]

\* The live State is identical, per isEmptyPatch, to the snapshot at the
\* cursor.
NothingToCommit ==
    isEmptyPatch(createPatch(SnapshotValue(timeline, timeline.cursor), createSnapshot(state)))

\* C8 (no-op suppression at the tip): in patch or hybrid mode with the
\* isEmptyPatch hook, a commit made with the cursor at the tip and the live
\* State identical to the tip snapshot creates no entry: length and index
\* are unchanged (and so are the entries), in both topologies.
SuppressionAtTip ==
    [][ ( /\ IsCommit
          /\ mode \in {"patch", "hybrid"}
          /\ hasIsEmptyPatch
          /\ Length(timeline) > 0
          /\ isAtPresent(timeline)
          /\ NothingToCommit )
        => ( /\ Length(timelineAfter) = Length(timeline)
             /\ timelineAfter.cursor = timeline.cursor
             /\ timelineAfter.entries = timeline.entries
             /\ currentBranchId' = currentBranchId ) ]_vars

\* A branching machine whose last call was a commit at the tip that was
\* suppressed, on a timeline of two entries.
WitnessSuppressionAtTip ==
    /\ topology = "branching"
    /\ last = [op |-> "commit", res |-> "empty", from |-> "tip"]
    /\ Length(timeline) = 2
    /\ timeline.cursor = 1

\* C9 (no-op suppression from the past): in patch or hybrid mode with the
\* isEmptyPatch hook, a commit made with the cursor behind the tip and the
\* live State identical to the snapshot at the cursor changes nothing, in
\* either topology: length, index, branchCount and the current branch id
\* are unchanged.
SuppressionFromPast ==
    [][ ( /\ IsCommit
          /\ mode \in {"patch", "hybrid"}
          /\ hasIsEmptyPatch
          /\ timeline.cursor < Length(timeline) - 1
          /\ NothingToCommit )
        => ( /\ Length(timelineAfter) = Length(timeline)
             /\ timelineAfter.cursor = timeline.cursor
             /\ Cardinality(DOMAIN branches') = branchCount
             /\ currentBranchId' = currentBranchId ) ]_vars

\* C10 (latestSnapshot invariant): in every state of a Timeline reached by
\* any sequence of pushFull, pushPatch (with or without truncation),
\* navigation and snapshot reads, latestSnapshot is absent when the timeline
\* is empty and otherwise equals getSnapshotAt(length - 1).
LatestSnapshotInvariant ==
    IF Length(timeline) = 0
    THEN timeline.latestSnapshot = None
    ELSE /\ timeline.latestSnapshot # None
         /\ getSnapshotAt(timeline, Length(timeline) - 1).snap = timeline.latestSnapshot

\* A patch-mode timeline just after a pushPatch from behind the tip dropped
\* the redo tail: its last entry holds a patch and no snapshot, so the
\* snapshot at length - 1 is reconstructed.
WitnessLatestSnapshotInvariant ==
    /\ mode = "patch"
    /\ last = [op |-> "pushPatch", res |-> "truncated", from |-> "past"]
    /\ Length(timeline) = 3
    /\ timeline.entries[3].snapshot = None
    /\ timeline.entries[2].patch # None
    /\ timeline.latestSnapshot # timeline.entries[1].snapshot

\* C11 (cursor invariant): in every reachable state the cursor of every
\* timeline, the forked ones included, is an integer in [-1, length - 1],
\* and it is -1 exactly when the timeline is empty.
CursorInvariant ==
    \A b \in DOMAIN branches :
        LET tl == branches[b].timeline
        IN /\ tl.cursor \in -1..(Length(tl) - 1)
           /\ (tl.cursor = -1) <=> (Length(tl) = 0)

\* Two timelines, the root rewound to its start and the forked branch
\* stepped back from its tip: both cursors are inside and behind the tip.
WitnessCursorInvariant ==
    /\ branchCount = 2
    /\ currentBranchId = 1
    /\ last = [op |-> "step", res |-> "backward", from |-> "tip"]
    /\ Length(branches[0].timeline) = 2
    /\ branches[0].timeline.cursor = 0
    /\ Length(branches[1].timeline) = 2
    /\ branches[1].timeline.cursor = 0

\* Entry 0 of the timeline carries a snapshot, and every entry without a
\* snapshot carries a patch.
EntryShape(tl) ==
    /\ Length(tl) > 0 => tl.entries[1].snapshot # None
    /\ \A k \in 1..Length(tl) :
          tl.entries[k].snapshot = None => tl.entries[k].patch # None

\* The number of entries of the timeline that outlive the step: a push
\* that truncates keeps entries 0..cursor, any other call keeps them all.
EntriesKept ==
    IF last'.res = "truncated" THEN timeline.cursor + 1 ELSE Length(timeline)

\* C12 (entry invariants): after every call on a timeline, entry 0 carries
\* a snapshot and every entry without a snapshot carries a patch; and the
\* patch field of every entry that outlives the call is what it was before
\* (a read may fill the snapshot of an entry, never touch its patch).
EntryInvariants ==
    [][ /\ EntryShape(timelineAfter)
        /\ Length(timelineAfter) >= EntriesKept
        /\ \A k \in 1..EntriesKept :
              timelineAfter.entries[k].patch = timeline.entries[k].patch ]_vars

\* A patch-mode timeline of three entries after a read of index 1: entry 1
\* keeps its patch beside the cached snapshot, entry 2 holds a patch only.
WitnessEntryInvariants ==
    /\ mode = "patch"
    /\ Length(timeline) = 3
    /\ timeline.entries[1].snapshot # None
    /\ timeline.entries[1].patch = None
    /\ timeline.entries[2].snapshot # None
    /\ timeline.entries[2].patch # None
    /\ timeline.entries[3].snapshot = None
    /\ timeline.entries[3].patch # None

CacheIdempotence ==
    \A i \in 0..(Length(timeline) - 1) :
        LET first == getSnapshotAt(timeline, i)
            second == getSnapshotAt(first.tl, i)
        IN /\ first.ok
           /\ second.ok
           /\ second.snap = first.snap
           /\ first.tl.entries[i + 1].snapshot = first.snap
           /\ second.tl = first.tl

\* A patch-mode timeline just after getSnapshotAt returned, with the cache
\* of its last entry, two patches away from the only stored snapshot, filled.
WitnessCacheIdempotence ==
    /\ mode = "patch"
    /\ last = [op |-> "getSnapshotAt", res |-> "ok", from |-> "tip"]
    /\ Length(timeline) = 3
    /\ timeline.entries[2].patch # None
    /\ timeline.entries[3].patch # None
    /\ timeline.entries[3].snapshot # None

\* C15 (pushPatch preconditions): pushPatch in full mode, or on a timeline
\* with no prior snapshot, fails and leaves the timeline as it was: no entry
\* added, no redo tail dropped, cursor and latestSnapshot unchanged.
PushPatchPreconditions ==
    [][ \A next \in Grids, truncate \in BOOLEAN :
          ( /\ (mode = "full" \/ timeline.latestSnapshot = None)
            /\ TimelinePushPatch(next, truncate) )
          => ( /\ last'.res = "throw"
               /\ timelineAfter = timeline ) ]_vars

\* A full-mode timeline with a redo tail behind its cursor just after a
\* pushPatch failed.
WitnessPushPatchPreconditions ==
    /\ mode = "full"
    /\ last = [op |-> "pushPatch", res |-> "throw", from |-> "tip"]
    /\ Length(timeline) = 3
    /\ timeline.cursor = 0

\* index is outside [0, length-1] of tl.
OutOfRange(tl, index) == index < 0 \/ index >= Length(tl)

\* The call that made the step threw and left the active branch, every
\* timeline and the live State as they were.
FailedUntouched ==
    /\ last'.res = "throw"
    /\ UNCHANGED <<currentBranchId, branches, state>>

\* C16 (out-of-range access): on every timeline of the machine,
\* Timeline.goTo(i), getSnapshotAt(i) and getEntry(i) with i < 0 or
\* i >= length fail and leave the timeline as it was, while goTo(i) with i in
\* range sets the cursor to i; TimeMachine.goTo(i) out of range fails and
\* leaves cursor, entries, active branch and State unchanged, and in range
\* it leaves the cursor at i.
OutOfRangeAccess ==
    [][ Constructed =>
          /\ \A b \in DOMAIN branches, i \in -1..(MaxLen + 1) :
                LET tl == branches[b].timeline
                IN IF OutOfRange(tl, i)
                   THEN /\ goToThrows(tl, i)
                        /\ goTo(tl, i) = tl
                        /\ ~getSnapshotAt(tl, i).ok
                        /\ getSnapshotAt(tl, i).tl = tl
                        /\ ~getEntry(tl, i).ok
                   ELSE /\ ~goToThrows(tl, i)
                        /\ goTo(tl, i).cursor = i
                        /\ goTo(tl, i).entries = tl.entries
          /\ \A i \in -1..MaxLen :
                (last'.op = "goTo" /\ GoTo(i))
                => IF OutOfRange(timeline, i)
                   THEN FailedUntouched
                   ELSE /\ last'.res = "ok"
                        /\ timelineAfter.cursor = i
                        /\ currentBranchId' = currentBranchId ]_vars

\* TimeMachine.goTo has just failed on a timeline of two entries whose
\* cursor is behind the tip, the State differing from the snapshot there.
WitnessOutOfRangeAccess ==
    /\ Constructed
    /\ last = [op |-> "goTo", res |-> "throw", from |-> "tip"]
    /\ Length(timeline) = 2
    /\ timeline.cursor = 0
    /\ state # SnapshotValue(timeline, 0)

\* C17 (capability validation at construction): no machine configured for
\* patch or hybrid mode without createPatch or without applyPatchToSnapshot
\* gets constructed.
CapabilityValidation ==
    (mode \in {"patch", "hybrid"} /\ (~hasCreatePatch \/ ~hasApplyPatchToSnapshot))
    => ~Constructed

\* The branch of the claim's arithmetic: position (p + k) mod n of the
\* ascending ids, p the position of the active branch.
CycleTarget(k) ==
    LET ids == getOrderedBranchIds
    IN ids[((IndexOf(ids, currentBranchId) + k) % Len(ids)) + 1]

RECURSIVE NextTimes(_, _, _)
\* The branch `times` successive nextBranch calls arrive at.
NextTimes(ids, current, times) ==
    IF times = 0 THEN current
    ELSE NextTimes(ids, NextId(ids, current, 1), times - 1)

\* C18 (branch cycling order): the ordered ids are the branch ids, ascending;
\* cycleBranch(k) activates the branch at position (p + k) mod n, nextBranch
\* is k = 1 and previousBranch k = -1; the set of branches is left alone, so
\* previousBranch after nextBranch returns to the branch it started from, as
\* do n successive nextBranch calls.
BranchCyclingOrder ==
    [][ LET ids == getOrderedBranchIds
        IN /\ {ids[p] : p \in 1..Len(ids)} = DOMAIN branches
           /\ \A p \in 1..(Len(ids) - 1) : ids[p] < ids[p + 1]
           /\ \A k \in -(MaxBranches + 2)..(MaxBranches + 2) :
                 (last'.op = "cycleBranch" /\ CycleBranch(k))
                 => /\ currentBranchId' = CycleTarget(k)
                    /\ DOMAIN branches' = DOMAIN branches
           /\ (last'.op = "nextBranch" /\ NextBranch)
              => /\ currentBranchId' = CycleTarget(1)
                 /\ DOMAIN branches' = DOMAIN branches
                 /\ NextId(ids, currentBranchId', -1) = currentBranchId
           /\ (last'.op = "previousBranch" /\ PreviousBranch)
              => /\ currentBranchId' = CycleTarget(-1)
                 /\ DOMAIN branches' = DOMAIN branches
                 /\ NextId(ids, currentBranchId', 1) = currentBranchId
           /\ NextTimes(ids, currentBranchId, Len(ids)) = currentBranchId ]_vars

\* previousBranch has just wrapped around from the first of three branches
\* to the last.
WitnessBranchCyclingOrder ==
    /\ branchCount = 3
    /\ last = [op |-> "previousBranch", res |-> "ok", from |-> "tip"]
    /\ currentBranchId = 2

\* C19 (branch operation failures): nextBranch, previousBranch and
\* cycleBranch under linear topology, and switchBranch with an unknown id,
\* fail and leave the active branch id, every timeline and the live State
\* unchanged.
BranchOperationFailures ==
    [][ Constructed =>
          /\ topology = "linear"
             => /\ NextBranch => FailedUntouched
                /\ PreviousBranch => FailedUntouched
                /\ \A k \in -(MaxBranches + 1)..(MaxBranches + 1) :
                      CycleBranch(k) => FailedUntouched
          /\ \A b \in 0..MaxBranches :
                (b \notin DOMAIN branches /\ SwitchBranch(b)) => FailedUntouched ]_vars

\* nextBranch has just failed on a linear machine whose State differs from
\* the snapshot at the cursor of its timeline.
WitnessBranchOperationFailures ==
    /\ Constructed
    /\ topology = "linear"
    /\ last = [op |-> "nextBranch", res |-> "throw", from |-> "tip"]
    /\ Length(timeline) = 2
    /\ state # SnapshotValue(timeline, timeline.cursor)

\* C20 (branch switch is a full overwrite): after a switchBranch or a cycle
\* that returned, the State is the snapshot the target branch reconstructs
\* at its own cursor, whatever the State was before, and no branch's length
\* or cursor has changed.
SwitchOverwrites ==
    [][ (last'.op = "switch" /\ last'.res = "ok")
        => LET target == branches[currentBranchId'].timeline
           IN /\ state' = SnapshotValue(target, target.cursor)
              /\ DOMAIN branches' = DOMAIN branches
              /\ \A b \in DOMAIN branches :
                    /\ Length(branches'[b].timeline) = Length(branches[b].timeline)
                    /\ branches'[b].timeline.cursor = branches[b].timeline.cursor ]_vars

\* A switch has just returned on a machine of two branches whose current
\* snapshots differ; the State is the one of the branch now active.
WitnessSwitchOverwrites ==
    /\ branchCount = 2
    /\ last = [op |-> "switch", res |-> "ok", from |-> "tip"]
    /\ currentBranchId = 1
    /\ state = SnapshotValue(timeline, timeline.cursor)
    /\ state # SnapshotValue(branches[0].timeline, branches[0].timeline.cursor)
    /\ timeline.cursor = 0
    /\ Length(timeline) = 2

\* C21 (cycling to the same branch): under branching topology a cycleBranch,
\* nextBranch or previousBranch whose target is the branch already active
\* does not fail; it returns that branch's snapshot at its cursor (written
\* onto the State) and leaves the active branch id and the set of branches
\* unchanged.
CycleToSameBranch ==
    [][ (Constructed /\ topology = "branching")
        => /\ \A k \in -(MaxBranches + 1)..(MaxBranches + 1) :
                (CycleTarget(k) = currentBranchId /\ CycleBranch(k))
                => /\ last'.res = "ok"
                   /\ currentBranchId' = currentBranchId
                   /\ DOMAIN branches' = DOMAIN branches
                   /\ state' = SnapshotValue(timeline, timeline.cursor)
           /\ (CycleTarget(1) = currentBranchId /\ NextBranch)
              => /\ last'.res = "ok"
                 /\ currentBranchId' = currentBranchId
                 /\ DOMAIN branches' = DOMAIN branches
                 /\ state' = SnapshotValue(timeline, timeline.cursor)
           /\ (CycleTarget(-1) = currentBranchId /\ PreviousBranch)
              => /\ last'.res = "ok"
                 /\ currentBranchId' = currentBranchId
                 /\ DOMAIN branches' = DOMAIN branches
                 /\ state' = SnapshotValue(timeline, timeline.cursor) ]_vars

\* C22 (full-snapshot commits): a commit on an empty timeline appends one
\* entry carrying the snapshot of the State and no patch, in every mode; in
\* full mode every commit, of an unchanged State too, appends exactly one
\* such entry after the entries up to the cursor and moves the cursor onto it.
FullSnapshotCommits ==
    [][ IsCommit
        => LET e == timelineAfter.entries[Length(timelineAfter)]
               full == [snapshot |-> Some(createSnapshot(state)), patch |-> None]
           IN /\ Length(timeline) = 0
                 => /\ last'.res = "first"
                    /\ Length(timelineAfter) = 1
                    /\ timelineAfter.cursor = 0
                    /\ e = full
              /\ mode = "full"
                 => /\ last'.res \in {"first", "full"}
                    /\ Length(timelineAfter) = timeline.cursor + 2
                    /\ timelineAfter.cursor = timeline.cursor + 1
                    /\ e = full
                    /\ SubSeq(timelineAfter.entries, 1, timeline.cursor + 1)
                       = SubSeq(timeline.entries, 1, timeline.cursor + 1) ]_vars

\* A full-mode machine has just committed a State equal to the snapshot of
\* its previous entry: the timeline holds the same snapshot twice.
WitnessFullSnapshotCommits ==
    /\ mode = "full"
    /\ last = [op |-> "commit", res |-> "full", from |-> "tip"]
    /\ Length(timeline) = 2
    /\ timeline.cursor = 1
    /\ timeline.entries[2].snapshot = timeline.entries[1].snapshot
    /\ timeline.entries[2].patch = None

\* The step moved the cursor by delta, kept entries and latestSnapshot, and
\* returned `returned`.
CursorStepped(delta, returned) ==
    /\ timelineAfter.cursor = timeline.cursor + delta
    /\ timelineAfter.entries = timeline.entries
    /\ timelineAfter.latestSnapshot = timeline.latestSnapshot
    /\ last'.res = returned

\* C23 (cursor navigation): Timeline.stepForward and stepBackward move the
\* cursor by exactly +1 / -1 and return true, or return false and leave the
\* cursor where it was at the tip / at index 0 / on an empty timeline;
\* stepBy(offset) sets the cursor to cursor + offset clamped to
\* [0, length-1] and returns true iff the cursor changed; none of them
\* changes the entries or latestSnapshot.
CursorNavigation ==
    [][ /\ (last'.op = "stepForward" /\ TimelineStepForward)
           => IF Length(timeline) = 0 \/ timeline.cursor = Length(timeline) - 1
              THEN CursorStepped(0, "false")
              ELSE CursorStepped(1, "true")
        /\ (last'.op = "stepBackward" /\ TimelineStepBackward)
           => IF Length(timeline) = 0 \/ timeline.cursor = 0
              THEN CursorStepped(0, "false")
              ELSE CursorStepped(-1, "true")
        /\ \A k \in -MaxSteps..MaxSteps :
              (last'.op = "stepBy" /\ TimelineStepBy(k))
              => LET target == Min(Max(timeline.cursor + k, 0), Length(timeline) - 1)
                 IN CursorStepped(target - timeline.cursor,
                                  IF target # timeline.cursor THEN "true" ELSE "false")
      ]_vars

\* stepBy has just returned true on a timeline of three entries, the cursor
\* now at index 0.
WitnessCursorNavigation ==
    /\ last = [op |-> "stepBy", res |-> "true", from |-> "tip"]
    /\ Length(timeline) = 3
    /\ timeline.cursor = 0

\* C24 (scalar patches are reversible for optional fields): whenever the
\* patch applied is computeScalarPatch(prev, next) for values prev and next,
\* each possibly absent, applying it forward to prev gives next and applying
\* it backward to next gives prev.
ScalarReversible ==
    codec.op = "applyScalarPatch"
    => \A prev \in OptionalScalars, next \in OptionalScalars :
          codec.patch = computeScalarPatch(prev, next)
          => /\ (codec.dir = "forward" /\ codec.base = prev) => codec.result = next
             /\ (codec.dir = "backward" /\ codec.base = next) => codec.result = prev

\* C25 (scalar fallback rule): applyScalarPatch returns the base value when
\* the patch is absent or when the patch's value for the requested direction
\* (next for forward, prev for backward) is absent, and that value otherwise.
ScalarFallback ==
    codec.op = "applyScalarPatch"
    => IF codec.patch = None THEN codec.result = codec.base
       ELSE LET requested == IF codec.dir = "forward" THEN codec.patch[1].next
                             ELSE codec.patch[1].prev
            IN IF requested = None THEN codec.result = codec.base
               ELSE codec.result = requested

\* A patch whose next value is absent has been applied forward to a base
\* that is neither of its values: the base came back.
WitnessScalarFallback ==
    /\ codec.op = "applyScalarPatch"
    /\ codec.patch = Some([prev |-> Some(1), next |-> None])
    /\ codec.dir = "forward"
    /\ codec.base = Some(2)
    /\ codec.result = Some(2)

\* The cell index a tuple of a grid patch names, 0-based.
TupleIndex(cell, width) == cell.y * width + cell.x

\* C26 (grid patch round trip): with p = computeGridPatch2D(a, b) for arrays
\* a and b of equal length, applying p forward to a gives b and backward to b
\* gives a; applying p to any base leaves every cell p does not list at its
\* base value, and the base array is what it was.
GridRoundTrip ==
    codec.op = "applyGridPatch2D"
    => /\ (codec.dir = "forward" /\ codec.base = codec.prev) => codec.result = codec.next
       /\ (codec.dir = "backward" /\ codec.base = codec.next) => codec.result = codec.prev
       /\ Len(codec.result) = Len(codec.base)
       /\ \A i \in 0..(Len(codec.base) - 1) :
             (\A k \in 1..Len(codec.patch) : TupleIndex(codec.patch[k], CodecWidth) # i)
             => codec.result[i + 1] = codec.base[i + 1]
       /\ codec.baseAfter = codec.base

\* A patch of two tuples has been applied backward to the array it leads
\* to: the array it was computed from came back.
WitnessGridRoundTrip ==
    /\ codec.op = "applyGridPatch2D"
    /\ codec.dir = "backward"
    /\ codec.base = codec.next
    /\ Len(codec.patch) = 2
    /\ codec.result = codec.prev
    /\ codec.result # codec.base

\* patch is exactly the diff of prev and next: one tuple for each cell index
\* at which they differ, in ascending index order, with x = i mod width,
\* y = i div width and the two cell values.
IsDiffOf(patch, prev, next, width) ==
    LET differing == {i \in 0..(Len(prev) - 1) : prev[i + 1] # next[i + 1]}
    IN /\ Len(patch) = Cardinality(differing)
       /\ \A k \in 1..Len(patch) :
             \E i \in differing :
                /\ patch[k] = [x |-> i % width, y |-> i \div width,
                               prev |-> prev[i + 1], next |-> next[i + 1]]
                /\ k > 1 => TupleIndex(patch[k - 1], width) < i

\* C27 (grid diff): for arrays of width * height cells computeGridPatch2D,
\* by either of its two loops, returns exactly one tuple per differing cell
\* and none for an identical cell, in ascending index order; the result is
\* empty iff the arrays are equal; arrays of different length are rejected.
GridDiff ==
    codec.op = "computeGridPatch2D"
    => /\ Len(codec.prev) # Len(codec.next) => codec.threw
       /\ (Len(codec.prev) = CodecWidth * CodecHeight
           /\ Len(codec.next) = CodecWidth * CodecHeight)
          => /\ ~codec.threw
             /\ IsDiffOf(codec.patch, codec.prev, codec.next, CodecWidth)
             /\ IsDiffOf(codec.rows, codec.prev, codec.next, CodecWidth)
             /\ (codec.patch = <<>>) <=> (codec.prev = codec.next)

\* Two arrays that differ in the second cell of the first row and the first
\* cell of the second row, and nowhere else, have been diffed.
WitnessGridDiff ==
    /\ codec.op = "computeGridPatch2D"
    /\ ~codec.threw
    /\ Len(codec.patch) = 2
    /\ codec.patch[1].x = 1 /\ codec.patch[1].y = 0
    /\ codec.patch[2].x = 0 /\ codec.patch[2].y = 1

\* C28 (composite patch emptiness): isEmptyPatch(p) holds iff the grid
\* sub-patch and every scalar sub-patch of p are empty, and
\* isEmptyPatch(createPatch(a, b)) holds iff a and b are equal in every field.
CompositeEmptiness ==
    codec.op = "createPatch"
    => /\ codec.empty <=> /\ codec.patch.cells = <<>>
                          /\ codec.patch.boardCursorIndex = None
                          /\ codec.patch.playerCursorIndex = None
                          /\ codec.patch.outcome = None
       /\ codec.empty <=> \A f \in DOMAIN codec.prev : codec.prev[f] = codec.next[f]

\* Two snapshots that differ in the outcome only, absent in the first, have
\* been diffed: the patch is not empty.
WitnessCompositeEmptiness ==
    /\ codec.op = "createPatch"
    /\ codec.prev.outcome = None
    /\ codec.next = [codec.prev EXCEPT !.outcome = Some("win")]
    /\ ~codec.empty

\* C29 (the adapter is a subset of commit): in patch or hybrid mode a
\* recorder.push(state), after any sequence of pushes, State changes and
\* cursor moves, leaves the Timeline as a linear
\* TimeMachine.commit without isEmptyPatch would leave it: neither fails,
\* the length, the cursor and the snapshot reconstructed at every index are
\* the same, and the snapshot at the tip is the snapshot of the pushed State.
AdapterIsCommit ==
    [][last'.op = "push"
       => LET snap == createSnapshot(state)
              made == CommitPush(timeline, snap)
          IN /\ last'.res = "ok"
             /\ made.kind # "throw"
             /\ Length(timelineAfter) = Length(made.tl)
             /\ timelineAfter.cursor = made.tl.cursor
             /\ \A i \in 0..(Length(made.tl) - 1) :
                   SnapshotValue(timelineAfter, i) = SnapshotValue(made.tl, i)
             /\ SnapshotValue(timelineAfter, Length(timelineAfter) - 1) = snap]_vars

\* Every branch can be arrived at from the active one by nextBranch calls,
\* and every branch other than the active one has a snapshot to switch to.
ReachableByCycling ==
    \A b \in DOMAIN branches :
        \/ b = currentBranchId
        \/ /\ topology = "branching"
           /\ Length(branches[b].timeline) > 0
           /\ \E n \in 1..(branchCount - 1) :
                 NextTimes(getOrderedBranchIds, currentBranchId, n) = b

\* C30 (branches are never destroyed): in every state the branch ids are
\* exactly 0 .. nextBranchId-1 (unique, the root being 0), each branch is
\* filed under its own id, the active id names an existing branch and every
\* branch is reachable by cycling; and no step removes a branch or lowers
\* branchCount, a step that adds a branch adding exactly one, under the id
\* that follows the largest id in use.
BranchesNeverDestroyed ==
    /\ [](/\ DOMAIN branches = 0..(nextBranchId - 1)
          /\ \A b \in DOMAIN branches : branches[b].id = b
          /\ currentBranchId \in DOMAIN branches
          /\ ReachableByCycling)
    /\ [][/\ DOMAIN branches \subseteq DOMAIN branches'
          /\ Cardinality(DOMAIN branches') >= branchCount
          /\ nextBranchId' >= nextBranchId
          /\ \A b \in DOMAIN branches' \ DOMAIN branches :
                /\ b = nextBranchId
                /\ \A a \in DOMAIN branches : a < b
                /\ nextBranchId' = b + 1]_vars

\* A commit from the past has forked branch 1 and the machine has since
\* switched back to the root, which is still there, behind its tip.
WitnessBranchesNeverDestroyed ==
    /\ branchCount = 2
    /\ currentBranchId = 0
    /\ last.op = "switch"
    /\ last.res = "ok"
    /\ Length(branches[1].timeline) = 2

\* C31 (StateHistory.stepBy keeps the State in step with the cursor): with
\* an applyPatchToState hook, when the State equals the snapshot at the
\* cursor and stepBy(offset) moves the cursor, the State afterwards equals
\* the snapshot at the new cursor.
HistoryStepInStep ==
    [][(/\ last'.op = "historyStepBy"
        /\ last'.res = "moved"
        /\ hasApplyPatchToState
        /\ state = SnapshotValue(timeline, timeline.cursor))
       => state' = SnapshotValue(timelineAfter, timelineAfter.cursor)]_vars

\* C32 (write-time checkpoint policy): a pushPatch that returns appends one
\* entry after the entries it keeps, moves the cursor onto it and advances
\* latestSnapshot to applyPatchToSnapshot(latestSnapshot, patch); the entry
\* carries the patch, and carries that snapshot never in patch mode and, in
\* hybrid mode, exactly when its index is a multiple of the checkpointInterval
\* (10 when none is configured).
CheckpointPolicy ==
    [][(last'.op = "pushPatch" /\ last'.res # "throw")
       => LET truncated == last'.res = "truncated"
              index == IF truncated THEN timeline.cursor + 1 ELSE Length(timeline)
              base == IF truncated THEN SnapshotValue(timeline, timeline.cursor)
                      ELSE timeline.latestSnapshot[1]
              entry == timelineAfter.entries[index + 1]
              interval == IF checkpointInterval = None THEN 10 ELSE checkpointInterval[1]
          IN /\ Length(timelineAfter) = index + 1
             /\ timelineAfter.cursor = index
             /\ entry.patch # None
             /\ timelineAfter.latestSnapshot =
                   Some(applyPatchToSnapshot(base, entry.patch[1]))
             /\ (entry.snapshot # None) <=> (mode = "hybrid" /\ index % interval = 0)
             /\ (entry.snapshot # None) => (entry.snapshot = timelineAfter.latestSnapshot)]_vars

\* A hybrid timeline that configures no interval has just been given its
\* eleventh entry by pushPatch: the entry at index 10 carries a snapshot, the
\* nine before it none.
WitnessCheckpointPolicy ==
    /\ mode = "hybrid"
    /\ checkpointInterval = None
    /\ last.op = "pushPatch"
    /\ Length(timeline) = 11
    /\ timeline.cursor = 10
    /\ timeline.entries[11].snapshot # None
    /\ \A i \in 2..10 : timeline.entries[i].snapshot = None

\* C33 (getSnapshotAt only fills caches): for every index i of a timeline,
\* getSnapshotAt(i) leaves the cursor, the length, latestSnapshot, every
\* patch and every snapshot already present as they were; each snapshot-less
\* entry after the nearest earlier snapshot-holding entry and up to i gets
\* the snapshot replay yields for it, no other entry is touched, and every
\* index reconstructs afterwards to what it reconstructed to before.
OnlyFillsCaches ==
    \A i \in 0..(Length(timeline) - 1) :
        LET r == getSnapshotAt(timeline, i)
            baseIndex == BaseIndex(timeline.entries, i)
        IN /\ r.ok
           /\ r.tl.cursor = timeline.cursor
           /\ Length(r.tl) = Length(timeline)
           /\ r.tl.latestSnapshot = timeline.latestSnapshot
           /\ \A j \in 0..(Length(timeline) - 1) :
                 LET before == timeline.entries[j + 1]
                     after == r.tl.entries[j + 1]
                 IN /\ after.patch = before.patch
                    /\ before.snapshot # None => after.snapshot = before.snapshot
                    /\ (before.snapshot = None /\ baseIndex < j /\ j <= i)
                       => after.snapshot = Some(SnapshotValue(timeline, j))
                    /\ (j < baseIndex \/ j > i) => after = before
                    /\ SnapshotValue(r.tl, j) = SnapshotValue(timeline, j)

\* A patch-mode timeline just after getSnapshotAt returned: the two entries
\* that follow the only stored snapshot both carry a patch and a cached
\* snapshot, and the cursor is not on the last of them.
WitnessOnlyFillsCaches ==
    /\ mode = "patch"
    /\ last = [op |-> "getSnapshotAt", res |-> "ok", from |-> "tip"]
    /\ Length(timeline) = 3
    /\ timeline.cursor = 0
    /\ \A j \in 2..3 : /\ timeline.entries[j].patch # None
                       /\ timeline.entries[j].snapshot # None

\* C34 (reconstruction never hits a defect): on every timeline of every
\* reachable state, getSnapshotAt(i) succeeds for every index in range: the
\* backward scan finds an entry holding a snapshot, a full-mode entry holds
\* its snapshot, and no entry is without both snapshot and patch.
ReconstructionSucceeds ==
    \A b \in DOMAIN branches :
        LET tl == branches[b].timeline
        IN \A i \in 0..(Length(tl) - 1) :
              /\ getSnapshotAt(tl, i).ok
              /\ BaseIndex(tl.entries, i) >= 0
              /\ mode = "full" => tl.entries[i + 1].snapshot # None
              /\ tl.entries[i + 1].snapshot # None \/ tl.entries[i + 1].patch # None

\* A patch-mode machine just after the commit that forked branch 1: the
\* cursor of the forked timeline is on the new entry, which holds a patch and
\* no snapshot.
WitnessReconstructionSucceeds ==
    /\ mode = "patch"
    /\ branchCount = 2
    /\ currentBranchId = 1
    /\ last.op = "commit"
    /\ Length(timeline) = 2
    /\ timeline.cursor = 1
    /\ timeline.entries[2].snapshot = None
    /\ timeline.entries[2].patch # None

\* C35 (history is append-only under branching): under branching topology no
\* step removes a branch's entry or replaces it: every branch keeps its
\* entries at their indices, with their patches and the snapshots they hold,
\* its length does not decrease, and every existing index of every branch
\* reconstructs to the snapshot it reconstructed to before.
AppendOnly ==
    [][topology = "branching"
       => \A b \in DOMAIN branches :
             LET before == branches[b].timeline
                 after == branches'[b].timeline
             IN /\ b \in DOMAIN branches'
                /\ Length(after) >= Length(before)
                /\ \A i \in 0..(Length(before) - 1) :
                      /\ after.entries[i + 1].patch = before.entries[i + 1].patch
                      /\ before.entries[i + 1].snapshot # None
                         => after.entries[i + 1].snapshot = before.entries[i + 1].snapshot
                      /\ SnapshotValue(after, i) = SnapshotValue(before, i)]_vars

\* A branching machine just after a commit made from the past with a changed
\* State: the root still has both its entries, and the new branch has the
\* first of them and one of its own.
WitnessAppendOnly ==
    /\ topology = "branching"
    /\ last = [op |-> "commit", res |-> "patch", from |-> "past"]
    /\ branchCount = 2
    /\ currentBranchId = 1
    /\ Length(branches[0].timeline) = 2
    /\ Length(branches[1].timeline) = 2
    /\ SnapshotValue(branches[1].timeline, 0) = SnapshotValue(branches[0].timeline, 0)
    /\ SnapshotValue(branches[1].timeline, 1) # SnapshotValue(branches[0].timeline, 1)

\* C36 (fork bookkeeping and shared prefix): a step that makes a branch
\* records on it the branch that was active as parentId and that branch's
\* cursor as forkIndex, with 0 <= forkIndex < parent length - 1, and no step
\* changes what a branch has recorded; in every state each forked branch and
\* its parent reconstruct the same snapshot at every index 0..forkIndex.
ForkBookkeeping ==
    /\ [](\A b \in DOMAIN branches :
             IF b = 0 THEN branches[b].parentId = None /\ branches[b].forkIndex = None
             ELSE /\ branches[b].parentId # None
                  /\ branches[b].forkIndex # None
                  /\ branches[b].parentId[1] \in DOMAIN branches
                  /\ LET child == branches[b].timeline
                         parent == branches[branches[b].parentId[1]].timeline
                         forkIndex == branches[b].forkIndex[1]
                     IN /\ 0 <= forkIndex
                        /\ forkIndex < Length(child)
                        /\ forkIndex < Length(parent)
                        /\ \A i \in 0..forkIndex :
                              SnapshotValue(child, i) = SnapshotValue(parent, i))
    /\ [][/\ \A b \in DOMAIN branches' \ DOMAIN branches :
                /\ branches'[b].parentId = Some(currentBranchId)
                /\ branches'[b].forkIndex = Some(timeline.cursor)
                /\ 0 <= timeline.cursor
                /\ timeline.cursor < Length(timeline) - 1
          /\ \A b \in DOMAIN branches \cap DOMAIN branches' :
                /\ branches'[b].parentId = branches[b].parentId
                /\ branches'[b].forkIndex = branches[b].forkIndex]_vars

\* Branch 1 was forked from the root at index 0 and has an entry of its own
\* that differs from the root's; the machine has since switched back to the
\* root.
WitnessForkBookkeeping ==
    /\ branchCount = 2
    /\ branches[1].parentId = Some(0)
    /\ branches[1].forkIndex = Some(0)
    /\ currentBranchId = 0
    /\ last.op = "switch"
    /\ Length(branches[0].timeline) = 2
    /\ Length(branches[1].timeline) = 2
    /\ SnapshotValue(branches[1].timeline, 1) # SnapshotValue(branches[0].timeline, 1)

\* C37 (each branch keeps its own cursor): a fork leaves the parent's cursor
\* at the fork index, behind its tip, and no step moves the cursor of a
\* branch other than the one active after it; a switch leaves the cursor of
\* the branch it enters where it was and sets the State to that branch's
\* snapshot there, so a switch back to the parent right after the fork sets
\* the State to the parent's snapshot at the fork index; and a commit of a
\* changed State made right after a switch onto a cursor behind the tip makes
\* a new branch and leaves the branch it was made on as it was.
OwnCursor ==
    [][/\ \A b \in DOMAIN branches :
             b # currentBranchId'
             => branches'[b].timeline.cursor = branches[b].timeline.cursor
       /\ \A c \in DOMAIN branches' \ DOMAIN branches :
             LET parent == branches'[currentBranchId].timeline
             IN /\ Some(parent.cursor) = branches'[c].forkIndex
                /\ parent.cursor < Length(parent) - 1
       /\ (last'.op = "switch" /\ last'.res = "ok")
          => LET target == branches[currentBranchId'].timeline
             IN /\ timelineAfter.cursor = target.cursor
                /\ state' = SnapshotValue(target, target.cursor)
       /\ (/\ last.op = "commit" /\ last.from = "past"
           /\ last'.op = "switch" /\ last'.res = "ok"
           /\ branches[currentBranchId].parentId = Some(currentBranchId'))
          => LET forkIndex == branches[currentBranchId].forkIndex[1]
                 parent == branches[currentBranchId'].timeline
             IN /\ timelineAfter.cursor = forkIndex
                /\ forkIndex < Length(timelineAfter) - 1
                /\ state' = SnapshotValue(parent, forkIndex)
       /\ (/\ last.op = "switch" /\ last.res = "ok"
           /\ last'.op = "commit"
           /\ ~isAtPresent(timeline)
           /\ StateChanged)
          => /\ branchCount' = branchCount + 1
             /\ currentBranchId' \notin DOMAIN branches
             /\ branches'[currentBranchId'].parentId = Some(currentBranchId)
             /\ branches'[currentBranchId] = branches[currentBranchId]]_vars

\* The root was forked at index 0, switched back to, and forked at index 0
\* again by a commit of a changed State: it still has its two entries and
\* its cursor at 0.
WitnessOwnCursor ==
    /\ branchCount = 3
    /\ branches[1].parentId = Some(0) /\ branches[1].forkIndex = Some(0)
    /\ branches[2].parentId = Some(0) /\ branches[2].forkIndex = Some(0)
    /\ currentBranchId = 2
    /\ last = [op |-> "commit", res |-> "patch", from |-> "past"]
    /\ Length(branches[0].timeline) = 2
    /\ branches[0].timeline.cursor = 0

====
